---------------------------- MODULE Spec2Model ----------------------------
(***************************************************************************)
(* Model of gd::Project (Core/GDCore/Project/Project.cpp): the ordered     *)
(* entity collections, the two-phase loading of events functions           *)
(* extensions with its dependency resolver, and the version-gated          *)
(* compatibility code of UnserializeFrom.                                  *)
(*                                                                         *)
(* Strings that the code parses (full object types "Ext::Name") are        *)
(* sequences of tokens, the namespace separator "::" being one token;      *)
(* every other string is an atom.  Indices are 1-based; npos is 0.         *)
(***************************************************************************)
EXTENDS Integers, Sequences, FiniteSets, TLC

(* ------------------------------ bounds -------------------------------- *)

\* Largest number of extension fragments of a document.
MaxFragments == 3

\* Largest number of entries of the platforms list of a document.
MaxPlatforms == 2

\* Largest number of entities (scenes and extensions) of a project.
MaxEntities == 3

\* EnsureObjectDefaultBehaviors is not called once that many warnings are
\* logged.
MaxWarnings == 2

(* ------------------------------ state --------------------------------- *)

VARIABLES
  pc,                               \* position of the running handler
  ret,                              \* where UnserializeAndInsertExtensionsFrom returns to
  eventsFunctionsExtensions,        \* Project::eventsFunctionsExtensions
  nextId,                           \* identity of the next allocated entity
  eventsFunctionsExtensionsElement, \* argument of UnserializeAndInsertExtensionsFrom
  extensionNameToElementIndex,      \* local map of UnserializeAndInsertExtensionsFrom
  objectTypeToVariantsElement,      \* local map: the variant side table
  i,                                \* loop index (phase 1, then the resolver's for loop)
  remainingExtensionNames,          \* resolver local
  loadOrderExtensionNames,          \* resolver local, then the range of phase 2
  foundAnyExtension,                \* resolver local
  orderIndex,                       \* position of phase 2 in the load order
  log,                              \* calls made to the extension entities, in order
  errors,                           \* gd::LogError calls
  extensionsBefore,                 \* the extensions held when the handler was called
  document,                         \* argument "element" of UnserializeFrom
  toolVersion,                      \* gd::VersionWrapper: Major, Minor, Build, Revision
  platformManager,                  \* names of the platforms gd::PlatformManager knows
  gdMajorVersion,                   \* Project::gdMajorVersion
  gdMinorVersion,                   \* Project::gdMinorVersion
  gdBuildVersion,                   \* Project::gdBuildVersion
  revision,                         \* local of UnserializeFrom
  warnings,                         \* gd::LogWarning calls
  projectName,                      \* Project::name
  useDeprecatedZeroAsDefaultZOrder, \* Project::useDeprecatedZeroAsDefaultZOrder
  currentPlatformName,              \* local of UnserializeFrom
  loadedPlatformNames,              \* the local "name" of each pass of the platforms loop
  platforms,                        \* Project::platforms (pointers, by platform name)
  currentPlatform,                  \* Project::currentPlatform
  scenes,                           \* Project::scenes
  externalEvents,                   \* Project::externalEvents
  externalLayouts,                  \* Project::externalLayouts
  lastCall,                         \* the last collection operation called, and what it returned
  game,                             \* the project that Init copies: argument "game"
  ensuredObject,                    \* argument "object" of EnsureObjectDefaultBehaviors
  metadataProvider,                 \* what gd::MetadataProvider answers for the current platform
  sceneResourcesPreloading,         \* Project::sceneResourcesPreloading
  sceneResourcesUnloading,          \* Project::sceneResourcesUnloading
  serialized,                       \* the elements SerializeTo has filled, in order
  isPlayableWithKeyboard,           \* Project::isPlayableWithKeyboard
  isPlayableWithGamepad,            \* Project::isPlayableWithGamepad
  isPlayableWithMobile,             \* Project::isPlayableWithMobile
  loads                             \* how many times UnserializeFrom was called

extVars == <<pc, ret, eventsFunctionsExtensions, nextId,
             eventsFunctionsExtensionsElement, extensionNameToElementIndex,
             objectTypeToVariantsElement, i, remainingExtensionNames,
             loadOrderExtensionNames, foundAnyExtension, orderIndex, log, errors,
             extensionsBefore>>

loadVars == <<document, toolVersion, platformManager, gdMajorVersion,
              gdMinorVersion, gdBuildVersion, revision, warnings, projectName,
              useDeprecatedZeroAsDefaultZOrder, currentPlatformName,
              loadedPlatformNames, platforms, currentPlatform, scenes,
              externalEvents, externalLayouts>>

deviceVars == <<isPlayableWithKeyboard, isPlayableWithGamepad,
                isPlayableWithMobile>>

otherVars == <<game, ensuredObject, metadataProvider,
               sceneResourcesPreloading, sceneResourcesUnloading, serialized,
               deviceVars, loads>>

vars == <<extVars, loadVars, lastCall, otherVars>>

(* ------------------------------ helpers ------------------------------- *)

npos == 0

Range(s) == { s[k] : k \in 1..Len(s) }

\* An erase that would erase nothing.
EraseNothing(s, k) == s

RemoveAt(s, k) == SubSeq(s, 1, k - 1) \o SubSeq(s, k + 1, Len(s))

InsertAt(s, k, e) == SubSeq(s, 1, k - 1) \o <<e>> \o SubSeq(s, k, Len(s))

NamespaceSeparator == "::"

\* gd::PlatformExtension::GetObjectFullType
GetObjectFullType(extensionName, objectName) ==
  <<extensionName, NamespaceSeparator, objectName>>

\* type.find(PlatformExtension::GetNamespaceSeparator())
SeparatorIndex(type) ==
  IF \E k \in 1..Len(type) : type[k] = NamespaceSeparator
    THEN CHOOSE k \in 1..Len(type) :
           /\ type[k] = NamespaceSeparator
           /\ \A j \in 1..(k - 1) : type[j] # NamespaceSeparator
    ELSE npos

\* The text of a one-token string, "" for the empty string.
Text(s) == IF Len(s) = 1 THEN s[1] ELSE ""

\* gd::PlatformExtension::GetExtensionFromFullObjectType
GetExtensionFromFullObjectType(type) ==
  IF SeparatorIndex(type) = npos
    THEN ""
    ELSE Text(SubSeq(type, 1, SeparatorIndex(type) - 1))

(* ------------------- the extensions collection ------------------------ *)

HasEventsFunctionsExtensionNamed(name) ==
  \E k \in 1..Len(eventsFunctionsExtensions) :
    eventsFunctionsExtensions[k].name = name

GetEventsFunctionsExtensionPosition(name) ==
  IF HasEventsFunctionsExtensionNamed(name)
    THEN CHOOSE k \in 1..Len(eventsFunctionsExtensions) :
           /\ eventsFunctionsExtensions[k].name = name
           /\ \A j \in 1..(k - 1) : eventsFunctionsExtensions[j].name # name
    ELSE npos

GetEventsFunctionsExtensionsCount == Len(eventsFunctionsExtensions)

\* new gd::EventsFunctionsExtension() followed by SetName(name)
NewEventsFunctionsExtension(id, name) ==
  [id |-> id, name |-> name, eventsBasedObjects |-> <<>>]

\* An emplace that would always append.
EmplaceAtEnd(collection, position, entity) == Append(collection, entity)

\* The vector after emplace(position < size() ? begin() + position : end(), e);
\* position is 0-based as in the code.
Emplace(collection, position, entity) ==
  IF position < Len(collection)
    THEN InsertAt(collection, position + 1, entity)
    ELSE Append(collection, entity)


(* ---------------- documents: the extension fragments ------------------ *)

ExtensionNames == {"A", "B", "C"}

\* Types of the child objects of a custom object: a type of each extension
\* (whether or not the document holds that extension) and a built-in type.
ChildObjectTypes ==
  { GetObjectFullType(e, "Bar") : e \in ExtensionNames } \cup { <<"Sprite">> }

\* Every custom object of a document holds one child object.
ChildObjectLists == { <<t>> : t \in ChildObjectTypes }

\* "eventsBasedObject" elements: name, child "objects", serialized variants.
EventsBasedObjectElements ==
  [name : {"Foo"}, objects : ChildObjectLists, variants : {"document"}]

EventsBasedObjectLists ==
  { <<>> } \cup { <<o>> : o \in EventsBasedObjectElements }

\* "eventsFunctionsExtension" elements.
ExtensionElements ==
  [name : ExtensionNames, eventsBasedObjects : EventsBasedObjectLists]

ExtensionDocuments ==
  UNION { [1..n -> ExtensionElements] : n \in 0..MaxFragments }

\* Variants of a freshly declared custom object.
DefaultVariants == "default"

\* The extensions a project may hold when UnserializeAndInsertExtensionsFrom
\* is called on it: none, or extension A whose custom object Foo carries
\* variants added by the user.
ExistingExtensions ==
  { <<>>,
    << [id |-> 1, name |-> "A",
        eventsBasedObjects |->
          << [name |-> "Foo", variants |-> "user", objects |-> <<>>] >>] >> }

(* ------------------ EventsFunctionsExtension (callee) ------------------ *)

\* EventsFunctionsExtension::UnserializeExtensionDeclarationFrom: rebuilds
\* the custom objects from the names of the element; their shape is new, so
\* variants and children are those of a fresh object.
UnserializeExtensionDeclarationFrom(extension, element) ==
  [extension EXCEPT
     !.name = element.name,
     !.eventsBasedObjects =
        [k \in 1..Len(element.eventsBasedObjects) |->
           [name |-> element.eventsBasedObjects[k].name,
            variants |-> DefaultVariants,
            objects |-> <<>>]]]

\* The element of the custom object called name, or none.
ObjectElementsNamed(element, name) ==
  { k \in 1..Len(element.eventsBasedObjects) :
      element.eventsBasedObjects[k].name = name }

\* EventsFunctionsExtension::UnserializeExtensionImplementationFrom: fills
\* every declared custom object with the content of its element.
UnserializeExtensionImplementationFrom(extension, element) ==
  [extension EXCEPT
     !.eventsBasedObjects =
        [k \in 1..Len(extension.eventsBasedObjects) |->
           LET object == extension.eventsBasedObjects[k]
               found  == ObjectElementsNamed(element, object.name)
           IN  IF found = {}
                 THEN object
                 ELSE LET source ==
                            element.eventsBasedObjects[
                              CHOOSE m \in found : \A n \in found : m <= n]
                      IN  [object EXCEPT !.variants = source.variants,
                                         !.objects = source.objects]]]

(* -------------------- Project::GetEventsBasedObject ------------------- *)

\* The positions <<extension, object>> that GetEventsBasedObject(type)
\* resolves to, or <<npos, npos>> when the extension or the object is absent
\* (the code then dereferences a past-the-end iterator).
EventsBasedObjectPosition(extensions, type) ==
  LET separatorIndex == SeparatorIndex(type)
      extensionName  == Text(SubSeq(type, 1, separatorIndex - 1))
      objectTypeName == Text(SubSeq(type, separatorIndex + 1, Len(type)))
      es == { k \in 1..Len(extensions) : extensions[k].name = extensionName }
  IN  IF es = {}
        THEN <<npos, npos>>
        ELSE LET e  == CHOOSE k \in es : \A j \in es : k <= j
                 os == { m \in 1..Len(extensions[e].eventsBasedObjects) :
                           extensions[e].eventsBasedObjects[m].name
                             = objectTypeName }
             IN  IF os = {}
                   THEN <<npos, npos>>
                   ELSE <<e, CHOOSE m \in os : \A n \in os : m <= n>>

EventsBasedObjectExists(extensions, type) ==
  EventsBasedObjectPosition(extensions, type) # <<npos, npos>>

\* The loop over objectTypeToVariantsElement: every entry whose type
\* resolves has its variants set from the snapshot.
RestoreVariants(extensions, table) ==
  [e \in 1..Len(extensions) |->
     [extensions[e] EXCEPT
        !.eventsBasedObjects =
           [m \in 1..Len(extensions[e].eventsBasedObjects) |->
              LET object == extensions[e].eventsBasedObjects[m]
                  type   == GetObjectFullType(extensions[e].name, object.name)
              IN  IF /\ type \in DOMAIN table
                     /\ EventsBasedObjectPosition(extensions, type) = <<e, m>>
                    THEN [object EXCEPT !.variants = table[type]]
                    ELSE object]]]

(* --------------- Project::GetUnserializingOrderExtensionNames --------- *)

\* Variant of ElementIndexes keeping the first element carrying each name
\* (the map filled without overwriting an existing key).
ElementIndexesKeepingFirst(elements) ==
  [n \in { elements[k].name : k \in 1..Len(elements) } |->
     CHOOSE k \in 1..Len(elements) :
       /\ elements[k].name = n
       /\ \A j \in 1..(k - 1) : elements[j].name # n]

\* The map filled by "extensionNameToElementIndex[name] = i" over the whole
\* array: the last element carrying each name.
ElementIndexes(elements) ==
  [n \in { elements[k].name : k \in 1..Len(elements) } |->
     CHOOSE k \in 1..Len(elements) :
       /\ elements[k].name = n
       /\ \A j \in (k + 1)..Len(elements) : elements[j].name # n]

ElementNames(elements) == [k \in 1..Len(elements) |-> elements[k].name]

\* Variant of isDependentFromRemainingExtensions with the comparison of
\* usedExtensionName and extensionName inverted.
isDependentFromOwnExtension(element, remaining) ==
  \E o \in 1..Len(element.eventsBasedObjects) :
    \E c \in 1..Len(element.eventsBasedObjects[o].objects) :
      LET objectType == element.eventsBasedObjects[o].objects[c]
          extensionName == element.name
          usedExtensionName == GetExtensionFromFullObjectType(objectType)
      IN  /\ usedExtensionName = extensionName
          /\ usedExtensionName \in Range(remaining)

\* Variant of isDependentFromRemainingExtensions that would not look at the
\* remaining names: any type of another extension blocks.
isDependentFromOtherExtensions(element, remaining) ==
  \E o \in 1..Len(element.eventsBasedObjects) :
    \E c \in 1..Len(element.eventsBasedObjects[o].objects) :
      LET objectType == element.eventsBasedObjects[o].objects[c]
          extensionName == element.name
          usedExtensionName == GetExtensionFromFullObjectType(objectType)
      IN  /\ usedExtensionName # extensionName
          /\ usedExtensionName # ""

\* The lambda isDependentFromRemainingExtensions.
isDependentFromRemainingExtensions(element, remaining) ==
  \E o \in 1..Len(element.eventsBasedObjects) :
    \E c \in 1..Len(element.eventsBasedObjects[o].objects) :
      LET objectType == element.eventsBasedObjects[o].objects[c]
          extensionName == element.name
          usedExtensionName == GetExtensionFromFullObjectType(objectType)
      IN  /\ usedExtensionName # extensionName
          /\ usedExtensionName \in Range(remaining)

(* ------------- Project::UnserializeAndInsertExtensionsFrom ------------ *)

\* Phase 1, one iteration of the loop over the elements: locate or create
\* the extension, back up the variants of its custom objects, unserialize
\* the declaration.
DeclareExtension ==
  /\ pc = "declare"
  /\ i <= Len(eventsFunctionsExtensionsElement)
  /\ LET element == eventsFunctionsExtensionsElement[i]
         name == element.name
         created == ~HasEventsFunctionsExtensionNamed(name)
         inserted ==
           IF created
             THEN Emplace(eventsFunctionsExtensions,
                          GetEventsFunctionsExtensionsCount,
                          NewEventsFunctionsExtension(nextId, name))
             ELSE eventsFunctionsExtensions
         position ==
           CHOOSE k \in 1..Len(inserted) :
             /\ inserted[k].name = name
             /\ \A j \in 1..(k - 1) : inserted[j].name # name
         extension == inserted[position]
         backup ==
           [t \in { GetObjectFullType(name, extension.eventsBasedObjects[m].name) :
                      m \in 1..Len(extension.eventsBasedObjects) } |->
              extension.eventsBasedObjects[
                CHOOSE m \in 1..Len(extension.eventsBasedObjects) :
                  /\ GetObjectFullType(name, extension.eventsBasedObjects[m].name) = t
                  /\ \A n \in (m + 1)..Len(extension.eventsBasedObjects) :
                       GetObjectFullType(name, extension.eventsBasedObjects[n].name) # t
              ].variants]
     IN  /\ extensionNameToElementIndex' =
              [n \in DOMAIN extensionNameToElementIndex \cup {name} |->
                 IF n = name THEN i ELSE extensionNameToElementIndex[n]]
         /\ nextId' = IF created THEN nextId + 1 ELSE nextId
         /\ objectTypeToVariantsElement' =
              [t \in DOMAIN objectTypeToVariantsElement \cup DOMAIN backup |->
                 IF t \in DOMAIN backup
                   THEN backup[t]
                   ELSE objectTypeToVariantsElement[t]]
         /\ eventsFunctionsExtensions' =
              [inserted EXCEPT
                 ![position] = UnserializeExtensionDeclarationFrom(extension, element)]
         /\ log' = Append(log, [kind |-> "declare", name |-> name, index |-> i])
  /\ i' = i + 1
  /\ UNCHANGED loadVars
  /\ UNCHANGED <<extensionsBefore, pc, ret, eventsFunctionsExtensionsElement,
                 remainingExtensionNames, loadOrderExtensionNames,
                 foundAnyExtension, orderIndex, errors>>
  /\ UNCHANGED lastCall
  /\ UNCHANGED otherVars

\* A phase 1 that could be left after its first iteration.
GetUnserializingOrderEnterEarly ==
  /\ pc = "declare"
  /\ i > 1
  /\ remainingExtensionNames' = ElementNames(eventsFunctionsExtensionsElement)
  /\ loadOrderExtensionNames' = <<>>
  /\ foundAnyExtension' = TRUE
  /\ pc' = "while"
  /\ UNCHANGED loadVars
  /\ UNCHANGED <<extensionsBefore, ret, eventsFunctionsExtensions, nextId,
                 eventsFunctionsExtensionsElement, extensionNameToElementIndex,
                 objectTypeToVariantsElement, i, orderIndex, log, errors>>
  /\ UNCHANGED lastCall
  /\ UNCHANGED otherVars

\* Phase 1 is over: GetUnserializingOrderExtensionNames is entered and
\* everything is yet to be loaded.
GetUnserializingOrderEnter ==
  /\ pc = "declare"
  /\ i > Len(eventsFunctionsExtensionsElement)
  /\ remainingExtensionNames' = ElementNames(eventsFunctionsExtensionsElement)
  /\ loadOrderExtensionNames' = <<>>
  /\ foundAnyExtension' = TRUE
  /\ pc' = "while"
  /\ UNCHANGED loadVars
  /\ UNCHANGED <<extensionsBefore, ret, eventsFunctionsExtensions, nextId,
                 eventsFunctionsExtensionsElement, extensionNameToElementIndex,
                 objectTypeToVariantsElement, i, orderIndex, log, errors>>
  /\ UNCHANGED lastCall
  /\ UNCHANGED otherVars

\* A while loop whose body would not reset foundAnyExtension.
GetUnserializingOrderPassKeepingFlag ==
  /\ pc = "while"
  /\ foundAnyExtension
  /\ i' = 1
  /\ pc' = "for"
  /\ UNCHANGED loadVars
  /\ UNCHANGED <<extensionsBefore, ret, eventsFunctionsExtensions, nextId,
                 eventsFunctionsExtensionsElement, extensionNameToElementIndex,
                 objectTypeToVariantsElement, remainingExtensionNames,
                 loadOrderExtensionNames, foundAnyExtension, orderIndex, log,
                 errors>>
  /\ UNCHANGED lastCall
  /\ UNCHANGED otherVars

\* while (foundAnyExtension) { foundAnyExtension = false; for (i = 0; ...
GetUnserializingOrderPass ==
  /\ pc = "while"
  /\ foundAnyExtension
  /\ foundAnyExtension' = FALSE
  /\ i' = 1
  /\ pc' = "for"
  /\ UNCHANGED loadVars
  /\ UNCHANGED <<extensionsBefore, ret, eventsFunctionsExtensions, nextId,
                 eventsFunctionsExtensionsElement, extensionNameToElementIndex,
                 objectTypeToVariantsElement, remainingExtensionNames,
                 loadOrderExtensionNames, orderIndex, log, errors>>
  /\ UNCHANGED lastCall
  /\ UNCHANGED otherVars

\* One iteration of the for loop over remainingExtensionNames.
GetUnserializingOrderScan ==
  /\ pc = "for"
  /\ i <= Len(remainingExtensionNames)
  /\ LET extensionName == remainingExtensionNames[i]
         elementIndex ==
           ElementIndexes(eventsFunctionsExtensionsElement)[extensionName]
         element == eventsFunctionsExtensionsElement[elementIndex]
     IN  IF ~isDependentFromRemainingExtensions(element, remainingExtensionNames)
           THEN /\ loadOrderExtensionNames' =
                     Append(loadOrderExtensionNames, extensionName)
                /\ remainingExtensionNames' = RemoveAt(remainingExtensionNames, i)
                /\ i' = i
                /\ foundAnyExtension' = TRUE
           ELSE /\ i' = i + 1
                /\ UNCHANGED <<loadOrderExtensionNames, remainingExtensionNames,
                               foundAnyExtension>>
  /\ UNCHANGED loadVars
  /\ UNCHANGED <<extensionsBefore, pc, ret, eventsFunctionsExtensions, nextId,
                 eventsFunctionsExtensionsElement, extensionNameToElementIndex,
                 objectTypeToVariantsElement, orderIndex, log, errors>>
  /\ UNCHANGED lastCall
  /\ UNCHANGED otherVars

\* The for loop has scanned the remaining names: back to the while test.
GetUnserializingOrderPassEnd ==
  /\ pc = "for"
  /\ i > Len(remainingExtensionNames)
  /\ pc' = "while"
  /\ UNCHANGED loadVars
  /\ UNCHANGED <<extensionsBefore, ret, eventsFunctionsExtensions, nextId,
                 eventsFunctionsExtensionsElement, extensionNameToElementIndex,
                 objectTypeToVariantsElement, i, remainingExtensionNames,
                 loadOrderExtensionNames, foundAnyExtension, orderIndex, log,
                 errors>>
  /\ UNCHANGED lastCall
  /\ UNCHANGED otherVars

\* A pass moved nothing: return loadOrderExtensionNames; phase 2 starts.
GetUnserializingOrderReturn ==
  /\ pc = "while"
  /\ ~foundAnyExtension
  /\ orderIndex' = 1
  /\ pc' = "implement"
  /\ UNCHANGED loadVars
  /\ UNCHANGED <<extensionsBefore, ret, eventsFunctionsExtensions, nextId,
                 eventsFunctionsExtensionsElement, extensionNameToElementIndex,
                 objectTypeToVariantsElement, i, remainingExtensionNames,
                 loadOrderExtensionNames, foundAnyExtension, log, errors>>
  /\ UNCHANGED lastCall
  /\ UNCHANGED otherVars

\* What the loop over objectTypeToVariantsElement can do: with every type
\* resolved it restores the variants; GetEventsBasedObject of an absent type
\* is undefined, the build either crashes or goes on past the entry.
RestoreOutcomes(extensions) ==
  IF \A t \in DOMAIN objectTypeToVariantsElement :
       EventsBasedObjectExists(extensions, t)
    THEN {"restored"}
    ELSE {"crashed", "skipped"}

\* Phase 2, one iteration of the loop over the load order.
ImplementExtension ==
  /\ pc = "implement"
  /\ orderIndex <= Len(loadOrderExtensionNames)
  /\ LET extensionName == loadOrderExtensionNames[orderIndex]
         extensionIndex == GetEventsFunctionsExtensionPosition(extensionName)
     IN  IF extensionIndex = npos
           THEN /\ errors' = Append(errors, [error |-> "Can't find extension",
                                             name |-> extensionName])
                /\ orderIndex' = orderIndex + 1
                /\ UNCHANGED <<pc, eventsFunctionsExtensions, log>>
           ELSE IF extensionName \notin DOMAIN extensionNameToElementIndex
           THEN /\ errors' = Append(errors, [error |-> "Can't find extension element",
                                             name |-> extensionName])
                /\ orderIndex' = orderIndex + 1
                /\ UNCHANGED <<pc, eventsFunctionsExtensions, log>>
           ELSE LET elementIndex == extensionNameToElementIndex[extensionName]
                    element == eventsFunctionsExtensionsElement[elementIndex]
                    implemented ==
                      [eventsFunctionsExtensions EXCEPT
                         ![extensionIndex] =
                            UnserializeExtensionImplementationFrom(@, element)]
                    restores ==
                      IF DOMAIN objectTypeToVariantsElement = {}
                        THEN <<>>
                        ELSE << [kind |-> "restore", name |-> extensionName,
                                 types |-> DOMAIN objectTypeToVariantsElement] >>
                IN  \E outcome \in RestoreOutcomes(implemented) :
                      /\ eventsFunctionsExtensions' =
                           RestoreVariants(implemented, objectTypeToVariantsElement)
                      /\ log' = Append(log, [kind |-> "implement",
                                             name |-> extensionName,
                                             index |-> elementIndex])
                                  \o restores
                      /\ pc' = IF outcome = "crashed" THEN "crashed" ELSE pc
                      /\ orderIndex' = orderIndex + 1
                      /\ UNCHANGED errors
  /\ UNCHANGED loadVars
  /\ UNCHANGED <<extensionsBefore, ret, nextId, eventsFunctionsExtensionsElement,
                 extensionNameToElementIndex, objectTypeToVariantsElement, i,
                 remainingExtensionNames, loadOrderExtensionNames,
                 foundAnyExtension>>
  /\ UNCHANGED lastCall
  /\ UNCHANGED otherVars

\* The load order is exhausted: UnserializeAndInsertExtensionsFrom returns.
UnserializeAndInsertExtensionsReturn ==
  /\ pc = "implement"
  /\ orderIndex > Len(loadOrderExtensionNames)
  /\ pc' = ret
  /\ UNCHANGED loadVars
  /\ UNCHANGED <<extensionsBefore, ret, eventsFunctionsExtensions, nextId,
                 eventsFunctionsExtensionsElement, extensionNameToElementIndex,
                 objectTypeToVariantsElement, i, remainingExtensionNames,
                 loadOrderExtensionNames, foundAnyExtension, orderIndex, log,
                 errors>>
  /\ UNCHANGED lastCall
  /\ UNCHANGED otherVars

UnserializeAndInsertExtensionsFrom ==
  \/ DeclareExtension
  \/ GetUnserializingOrderEnter
  \/ GetUnserializingOrderPass
  \/ GetUnserializingOrderScan
  \/ GetUnserializingOrderPassEnd
  \/ GetUnserializingOrderReturn
  \/ ImplementExtension
  \/ UnserializeAndInsertExtensionsReturn

(* ------------------- the project as constructed ----------------------- *)

\* No project to copy, no object to reconcile, no metadata asked for.
NoOther ==
  /\ game = "none"
  /\ ensuredObject = "none"
  /\ metadataProvider = "none"
  /\ serialized = <<>>
  /\ loads = 0

\* No collection operation called yet: the project is as constructed.
NoCall ==
  [op |-> "Project", name |-> "", first |-> 0, second |-> 0, returned |-> 0,
   before |-> <<>>]

NULL == "NULL"

\* An attribute of an element: absent, or its value.
Absent == <<>>

Present(value) == <<value>>

NoDocument == "none"

\* Project::Project(): the members the model keeps.
ConstructedProject ==
  /\ gdMajorVersion = toolVersion[1]
  /\ gdMinorVersion = toolVersion[2]
  /\ gdBuildVersion = toolVersion[3]
  /\ revision = 0
  /\ warnings = <<>>
  /\ projectName = "Project"
  /\ useDeprecatedZeroAsDefaultZOrder = FALSE
  /\ currentPlatformName = ""
  /\ loadedPlatformNames = <<>>
  /\ platforms = <<>>
  /\ currentPlatform = NULL
  /\ scenes = <<>>
  /\ externalEvents = <<>>
  /\ externalLayouts = <<>>
  /\ sceneResourcesPreloading = "at-startup"
  /\ sceneResourcesUnloading = "never"
  /\ isPlayableWithKeyboard = FALSE
  /\ isPlayableWithGamepad = FALSE
  /\ isPlayableWithMobile = FALSE
  /\ lastCall = NoCall

(* ---- specification: UnserializeAndInsertExtensionsFrom on a project --- *)

InitExtensions ==
  /\ NoOther
  /\ pc = "declare"
  /\ ret = "done"
  /\ eventsFunctionsExtensions \in ExistingExtensions
  /\ extensionsBefore = eventsFunctionsExtensions
  /\ nextId = 2
  /\ eventsFunctionsExtensionsElement \in ExtensionDocuments
  /\ extensionNameToElementIndex = <<>>
  /\ objectTypeToVariantsElement = <<>>
  /\ i = 1
  /\ remainingExtensionNames = <<>>
  /\ loadOrderExtensionNames = <<>>
  /\ foundAnyExtension = FALSE
  /\ orderIndex = 1
  /\ log = <<>>
  /\ errors = <<>>
  /\ document = NoDocument
  /\ toolVersion = <<5, 4, 74, 1>>
  /\ platformManager = {"GDevelop JS platform"}
  /\ ConstructedProject

NextExtensions == UnserializeAndInsertExtensionsFrom

SpecExtensions == InitExtensions /\ [][NextExtensions]_vars

(* ---- specification: the handler run to its end on a new project ------- *)

\* Fragments of two extensions, without custom object or with one that
\* embeds a type of its own extension or of the other one.
ResolverElements ==
  [name : {"A", "B"},
   eventsBasedObjects :
     { <<>> } \cup
     { << [name |-> "Foo", objects |-> << GetObjectFullType(e, "Bar") >>,
           variants |-> "document"] >> : e \in {"A", "B"} }]

ResolverDocuments ==
  UNION { [1..n -> ResolverElements] : n \in 0..MaxFragments }

InitResolver ==
  /\ NoOther
  /\ pc = "declare"
  /\ ret = "done"
  /\ eventsFunctionsExtensions = <<>>
  /\ extensionsBefore = <<>>
  /\ nextId = 1
  /\ eventsFunctionsExtensionsElement \in ResolverDocuments
  /\ extensionNameToElementIndex = <<>>
  /\ objectTypeToVariantsElement = <<>>
  /\ i = 1
  /\ remainingExtensionNames = <<>>
  /\ loadOrderExtensionNames = <<>>
  /\ foundAnyExtension = FALSE
  /\ orderIndex = 1
  /\ log = <<>>
  /\ errors = <<>>
  /\ document = NoDocument
  /\ toolVersion = <<5, 4, 74, 1>>
  /\ platformManager = {"GDevelop JS platform"}
  /\ ConstructedProject

\* The handler is a sequential program that runs to its end: a step that
\* can be taken is taken.
SpecResolver ==
  InitResolver /\ [][NextExtensions]_vars /\ WF_vars(NextExtensions)

(* ----------------------- gd::VersionWrapper --------------------------- *)

\* The versions of the running tool that the model covers.
ToolVersions == { <<4, 0, 98, 0>>, <<5, 4, 74, 1>> }

\* gd::VersionWrapper::IsOlder
IsOlder(major, minor, build, rev, major2, minor2, build2, rev2) ==
  \/ major < major2
  \/ major = major2 /\ minor < minor2
  \/ major = major2 /\ minor = minor2 /\ build < build2
  \/ major = major2 /\ minor = minor2 /\ build = build2 /\ rev < rev2

\* gd::VersionWrapper::IsOlderOrEqual
IsOlderOrEqual(major, minor, build, rev, major2, minor2, build2, rev2) ==
  \/ major = major2 /\ minor = minor2 /\ build = build2 /\ rev = rev2
  \/ IsOlder(major, minor, build, rev, major2, minor2, build2, rev2)

(* ------------------- documents: the project element ------------------- *)

\* "gdVersion": its four attributes, or none of them when the document has
\* no such child.
VersionElements ==
  { [major |-> Absent, minor |-> Absent, build |-> Absent, revision |-> Absent] }
    \cup [major : { Present(v) : v \in {3, 4, 5} },
           minor : { Present(v) : v \in {0, 4, 5} },
           build : { Present(v) : v \in {73, 74, 98, 99} },
           revision : { Present(v) : v \in {0, 1} }]

\* Names a document gives to its platforms.
DocumentPlatformNames ==
  {"Game Develop C++ platform", "Game Develop JS platform",
   "GDevelop JS platform", "Unknown platform"}

PlatformLists ==
  UNION { [1..n -> DocumentPlatformNames] : n \in 0..MaxPlatforms }

\* "currentPlatform": "" when the document has none.
CurrentPlatformNames ==
  {"", "Game Develop C++ platform", "Game Develop JS platform"}

\* What gd::PlatformManager may know.
PlatformManagers ==
  { {"GDevelop JS platform"},
    {"GDevelop JS platform", "GDevelop C++ platform"} }

\* Two extensions of a document, the first embedding a type of the second.
LoadedExtensions ==
  << [name |-> "A",
      eventsBasedObjects |->
        << [name |-> "Foo", objects |-> << <<"B", "::", "Bar">> >>,
            variants |-> "document"] >>],
     [name |-> "B", eventsBasedObjects |-> <<>>] >>

\* The documents loaded into a new project: every version, flag and list of
\* platforms, with one extension, two scenes, external events and an
\* external layout.
ProjectElements ==
  [gdVersion : VersionElements,
   name : {"Game"},
   useDeprecatedZeroAsDefaultZOrder : {Absent, Present(TRUE), Present(FALSE)},
   currentPlatform : CurrentPlatformNames,
   playableDevices : { <<"keyboard", "touch">> },
   platforms : PlatformLists,
   eventsFunctionsExtensions :
     { << [name |-> "B", eventsBasedObjects |-> <<>>] >> },
   layouts : { <<"Scene", "Menu">> },
   externalEvents : { <<"Events">> },
   externalLayouts : { <<"Layout">> }]

\* SerializerElement::GetIntAttribute / GetBoolAttribute with a default.
GetAttribute(attribute, defaultValue) ==
  IF attribute = Absent THEN defaultValue ELSE attribute[1]

(* ----------------------- Project::UnserializeFrom ---------------------- *)

\* Variant of VersionWarnings that stops at the build number.
VersionWarningsWithoutRevision(major, minor, build, rev) ==
  IF major > toolVersion[1]
    THEN <<"new version">>
    ELSE IF \/ major = toolVersion[1] /\ minor > toolVersion[2]
            \/ major = toolVersion[1] /\ minor = toolVersion[2]
                 /\ build > toolVersion[3]
           THEN <<"greater version">>
           ELSE <<>>

\* The warnings logged after reading gdVersion.
VersionWarnings(major, minor, build, rev) ==
  IF major > toolVersion[1]
    THEN <<"new version">>
    ELSE IF \/ major = toolVersion[1] /\ minor > toolVersion[2]
            \/ major = toolVersion[1] /\ minor = toolVersion[2]
                 /\ build > toolVersion[3]
            \/ major = toolVersion[1] /\ minor = toolVersion[2]
                 /\ build = toolVersion[3] /\ rev > toolVersion[4]
           THEN <<"greater version">>
           ELSE <<>>

\* gdVersion is read and compared with the version of the tool.
UnserializeVersion ==
  /\ pc = "gdVersion"
  /\ LET gdVersionElement == document.gdVersion
         major == GetAttribute(gdVersionElement.major, gdMajorVersion)
         minor == GetAttribute(gdVersionElement.minor, gdMinorVersion)
         build == GetAttribute(gdVersionElement.build, 0)
         rev   == GetAttribute(gdVersionElement.revision, 0)
     IN  /\ gdMajorVersion' = major
         /\ gdMinorVersion' = minor
         /\ gdBuildVersion' = build
         /\ revision' = rev
         /\ warnings' = warnings \o VersionWarnings(major, minor, build, rev)
  /\ pc' = "properties"
  /\ UNCHANGED <<ret, eventsFunctionsExtensions, nextId,
                 eventsFunctionsExtensionsElement, extensionNameToElementIndex,
                 objectTypeToVariantsElement, i, remainingExtensionNames,
                 loadOrderExtensionNames, foundAnyExtension, orderIndex, log,
                 errors, extensionsBefore>>
  /\ UNCHANGED <<document, toolVersion, platformManager, projectName,
                 useDeprecatedZeroAsDefaultZOrder, currentPlatformName,
                 loadedPlatformNames, platforms, currentPlatform, scenes,
                 externalEvents, externalLayouts>>
  /\ UNCHANGED lastCall
  /\ UNCHANGED otherVars

\* Variant of ZeroAsDefaultZOrder in which an old version forces the value.
ZeroAsDefaultZOrderForcedByVersion(major, minor, build, attribute) ==
  IF IsOlderOrEqual(major, minor, build, 0, 4, 0, 98, 0)
    THEN TRUE
    ELSE GetAttribute(attribute, FALSE)

\* Compatibility with GD <= 5.0.0-beta101: useDeprecatedZeroAsDefaultZOrder.
ZeroAsDefaultZOrder(major, minor, build, attribute) ==
  IF IsOlderOrEqual(major, minor, build, 0, 4, 0, 98, 0) /\ attribute = Absent
    THEN TRUE
    ELSE GetAttribute(attribute, FALSE)

\* The loop over "playableDevices" for one flag: the flag is set when a
\* child holds the name of the device, and is otherwise left as it is.
PlayableWith(flag, device, playableDevices) ==
  IF device \in Range(playableDevices) THEN TRUE ELSE flag

\* The scalar properties and the playable devices are read.
UnserializeProperties ==
  /\ pc = "properties"
  /\ projectName' = document.name
  /\ useDeprecatedZeroAsDefaultZOrder' =
       ZeroAsDefaultZOrder(gdMajorVersion, gdMinorVersion, gdBuildVersion,
                           document.useDeprecatedZeroAsDefaultZOrder)
  /\ isPlayableWithKeyboard' =
       PlayableWith(isPlayableWithKeyboard, "keyboard", document.playableDevices)
  /\ isPlayableWithGamepad' =
       PlayableWith(isPlayableWithGamepad, "gamepad", document.playableDevices)
  /\ isPlayableWithMobile' =
       PlayableWith(isPlayableWithMobile, "mobile", document.playableDevices)
  /\ pc' = "platforms"
  /\ UNCHANGED <<ret, eventsFunctionsExtensions, nextId,
                 eventsFunctionsExtensionsElement, extensionNameToElementIndex,
                 objectTypeToVariantsElement, i, remainingExtensionNames,
                 loadOrderExtensionNames, foundAnyExtension, orderIndex, log,
                 errors, extensionsBefore>>
  /\ UNCHANGED <<document, toolVersion, platformManager, gdMajorVersion,
                 gdMinorVersion, gdBuildVersion, revision, warnings,
                 currentPlatformName, loadedPlatformNames, platforms,
                 currentPlatform, scenes, externalEvents, externalLayouts>>
  /\ UNCHANGED lastCall
  /\ UNCHANGED <<game, ensuredObject, metadataProvider,
                 sceneResourcesPreloading, sceneResourcesUnloading, serialized,
                 loads>>

\* Variant of RenamedPlatform that leaves the JS platform name alone.
RenamedPlatformCppOnly(platformName) ==
  IF platformName = "Game Develop C++ platform"
    THEN "GDevelop C++ platform"
    ELSE platformName

\* The two renames of the compatibility code.
RenamedPlatform(platformName) ==
  IF platformName = "Game Develop C++ platform"
    THEN "GDevelop C++ platform"
    ELSE IF platformName = "Game Develop JS platform"
           THEN "GDevelop JS platform"
           ELSE platformName

\* The test guarding the renames, with the arguments the code passes.
IsBeforePlatformRename ==
  IsOlderOrEqual(gdMajorVersion, gdMajorVersion, gdMinorVersion, 0, 3, 4, 73, 0)

CompatiblePlatformName(platformName) ==
  IF IsBeforePlatformRename THEN RenamedPlatform(platformName) ELSE platformName

\* A platform manager that would have a platform for every name.
GetPlatformOfAnyName(platformName) == platformName

\* gd::PlatformManager::GetPlatform: the platform (by its name) or NULL.
GetPlatform(platformName) ==
  IF platformName \in platformManager THEN platformName ELSE NULL

\* Project::AddPlatform, as the pair <<platforms, currentPlatform>>.
AddPlatform(list, current, platform) ==
  IF platform \in Range(list)
    THEN <<list, current>>
    ELSE <<Append(list, platform), IF current = NULL THEN platform ELSE current>>

RECURSIVE UnserializePlatformList(_, _, _, _)
\* The loop over the "platforms" array from its k-th entry on.
UnserializePlatformList(names, k, list, current) ==
  IF k > Len(names)
    THEN <<list, current>>
    ELSE LET platform == GetPlatform(CompatiblePlatformName(names[k]))
         IN  IF platform # NULL
               THEN LET added == AddPlatform(list, current, platform)
                    IN  UnserializePlatformList(
                          names, k + 1, added[1],
                          IF \/ platform = CompatiblePlatformName(document.currentPlatform)
                             \/ CompatiblePlatformName(document.currentPlatform) = ""
                            THEN platform
                            ELSE added[2])
               ELSE UnserializePlatformList(names, k + 1, list, current)

\* currentPlatform and the platforms list are read.
UnserializePlatforms ==
  /\ pc = "platforms"
  /\ currentPlatformName' = CompatiblePlatformName(document.currentPlatform)
  /\ loadedPlatformNames' =
       [k \in 1..Len(document.platforms) |->
          CompatiblePlatformName(document.platforms[k])]
  /\ LET read == UnserializePlatformList(document.platforms, 1, platforms, NULL)
         compatible ==
           IF Len(document.platforms) = 0
             THEN <<Append(read[1], GetPlatform("GDevelop C++ platform")),
                    GetPlatform("GDevelop C++ platform")>>
             ELSE read
     IN  /\ platforms' = compatible[1]
         /\ currentPlatform' =
              IF compatible[2] = NULL /\ compatible[1] # <<>>
                THEN compatible[1][Len(compatible[1])]
                ELSE compatible[2]
  /\ pc' = "extensions"
  /\ UNCHANGED <<ret, eventsFunctionsExtensions, nextId,
                 eventsFunctionsExtensionsElement, extensionNameToElementIndex,
                 objectTypeToVariantsElement, i, remainingExtensionNames,
                 loadOrderExtensionNames, foundAnyExtension, orderIndex, log,
                 errors, extensionsBefore>>
  /\ UNCHANGED <<document, toolVersion, platformManager, gdMajorVersion,
                 gdMinorVersion, gdBuildVersion, revision, warnings, projectName,
                 useDeprecatedZeroAsDefaultZOrder, scenes, externalEvents,
                 externalLayouts>>
  /\ UNCHANGED lastCall
  /\ UNCHANGED otherVars

\* eventsFunctionsExtensions.clear(), then the call of
\* UnserializeAndInsertExtensionsFrom on the "eventsFunctionsExtensions" child.
UnserializeExtensions ==
  /\ pc = "extensions"
  /\ eventsFunctionsExtensions' = <<>>
  /\ extensionsBefore' = <<>>
  /\ eventsFunctionsExtensionsElement' = document.eventsFunctionsExtensions
  /\ extensionNameToElementIndex' = <<>>
  /\ objectTypeToVariantsElement' = <<>>
  /\ i' = 1
  /\ ret' = "objects"
  /\ pc' = "declare"
  /\ UNCHANGED <<nextId, remainingExtensionNames, loadOrderExtensionNames,
                 foundAnyExtension, orderIndex, log, errors>>
  /\ UNCHANGED loadVars
  /\ UNCHANGED lastCall
  /\ UNCHANGED otherVars

\* std::size_t(-1), the position InsertNewLayout is given by the loader.
EndPosition == 2147483647

\* new gd::Layout() and its like, followed by SetName(name).
NewEntity(id, entityName) == [id |-> id, name |-> entityName]

RECURSIVE InsertAllAtFront(_, _, _, _, _)
\* A loop that would insert each entity before the ones already there.
InsertAllAtFront(collection, names, k, id, position) ==
  IF k > Len(names)
    THEN collection
    ELSE InsertAllAtFront(Emplace(collection, 0, NewEntity(id, names[k])),
                          names, k + 1, id + 1, position)

RECURSIVE InsertAll(_, _, _, _, _)
\* A loop of the loader: for the k-th name on, InsertNew...(name, position)
\* then UnserializeFrom on the inserted entity; position is EndPosition or,
\* when given as npos - 1, the count of the collection.
InsertAll(collection, names, k, id, position) ==
  IF k > Len(names)
    THEN collection
    ELSE InsertAll(
           Emplace(collection,
                   IF position = EndPosition THEN EndPosition ELSE Len(collection),
                   NewEntity(id, names[k])),
           names, k + 1, id + 1, position)

\* The objects, resources and variables are passed through; scenes.clear()
\* and the loop over "layouts".
UnserializeLayouts ==
  /\ pc = "objects"
  /\ scenes' = InsertAll(<<>>, document.layouts, 1, nextId, EndPosition)
  /\ nextId' = nextId + Len(document.layouts)
  /\ pc' = "externalEvents"
  /\ UNCHANGED <<ret, eventsFunctionsExtensions,
                 eventsFunctionsExtensionsElement, extensionNameToElementIndex,
                 objectTypeToVariantsElement, i, remainingExtensionNames,
                 loadOrderExtensionNames, foundAnyExtension, orderIndex, log,
                 errors, extensionsBefore>>
  /\ UNCHANGED <<document, toolVersion, platformManager, gdMajorVersion,
                 gdMinorVersion, gdBuildVersion, revision, warnings, projectName,
                 useDeprecatedZeroAsDefaultZOrder, currentPlatformName,
                 loadedPlatformNames, platforms, currentPlatform,
                 externalEvents, externalLayouts>>
  /\ UNCHANGED lastCall
  /\ UNCHANGED otherVars

\* externalEvents.clear() and the loop over "externalEvents".
UnserializeExternalEvents ==
  /\ pc = "externalEvents"
  /\ externalEvents' = InsertAll(<<>>, document.externalEvents, 1, nextId, 0)
  /\ nextId' = nextId + Len(document.externalEvents)
  /\ pc' = "externalLayouts"
  /\ UNCHANGED <<ret, eventsFunctionsExtensions,
                 eventsFunctionsExtensionsElement, extensionNameToElementIndex,
                 objectTypeToVariantsElement, i, remainingExtensionNames,
                 loadOrderExtensionNames, foundAnyExtension, orderIndex, log,
                 errors, extensionsBefore>>
  /\ UNCHANGED <<document, toolVersion, platformManager, gdMajorVersion,
                 gdMinorVersion, gdBuildVersion, revision, warnings, projectName,
                 useDeprecatedZeroAsDefaultZOrder, currentPlatformName,
                 loadedPlatformNames, platforms, currentPlatform, scenes,
                 externalLayouts>>
  /\ UNCHANGED lastCall
  /\ UNCHANGED otherVars

\* externalLayouts.clear() and the loop over "externalLayouts"; each entity
\* is inserted unnamed and named by ExternalLayout::UnserializeFrom.
UnserializeExternalLayouts ==
  /\ pc = "externalLayouts"
  /\ externalLayouts' = InsertAll(<<>>, document.externalLayouts, 1, nextId, 0)
  /\ nextId' = nextId + Len(document.externalLayouts)
  /\ pc' = "done"
  /\ UNCHANGED <<ret, eventsFunctionsExtensions,
                 eventsFunctionsExtensionsElement, extensionNameToElementIndex,
                 objectTypeToVariantsElement, i, remainingExtensionNames,
                 loadOrderExtensionNames, foundAnyExtension, orderIndex, log,
                 errors, extensionsBefore>>
  /\ UNCHANGED <<document, toolVersion, platformManager, gdMajorVersion,
                 gdMinorVersion, gdBuildVersion, revision, warnings, projectName,
                 useDeprecatedZeroAsDefaultZOrder, currentPlatformName,
                 loadedPlatformNames, platforms, currentPlatform, scenes,
                 externalEvents>>
  /\ UNCHANGED lastCall
  /\ UNCHANGED otherVars

UnserializeFrom ==
  \/ UnserializeVersion
  \/ UnserializeProperties
  \/ UnserializePlatforms
  \/ UnserializeExtensions
  \/ UnserializeAndInsertExtensionsFrom
  \/ UnserializeLayouts
  \/ UnserializeExternalEvents
  \/ UnserializeExternalLayouts

(* ------------- specification: UnserializeFrom on a new project --------- *)

InitLoad ==
  /\ NoOther
  /\ pc = "gdVersion"
  /\ ret = "objects"
  /\ document \in ProjectElements
  /\ toolVersion \in ToolVersions
  /\ platformManager \in PlatformManagers
  /\ ConstructedProject
  /\ eventsFunctionsExtensions = <<>>
  /\ extensionsBefore = <<>>
  /\ nextId = 1
  /\ eventsFunctionsExtensionsElement = <<>>
  /\ extensionNameToElementIndex = <<>>
  /\ objectTypeToVariantsElement = <<>>
  /\ i = 1
  /\ remainingExtensionNames = <<>>
  /\ loadOrderExtensionNames = <<>>
  /\ foundAnyExtension = FALSE
  /\ orderIndex = 1
  /\ log = <<>>
  /\ errors = <<>>

NextLoad == UnserializeFrom

SpecLoad == InitLoad /\ [][NextLoad]_vars

(* ------------------ the collections of a project ---------------------- *)

\* Names given to the scenes and extensions.
EntityNames == {"Scene", "Menu"}

\* Positions given to InsertNew...: indices and the loader's (size_t)-1.
Positions == (0..MaxEntities) \cup {EndPosition}

\* Indices given to Move... and Swap..., one of them past every entity.
Indexes == 0..MaxEntities

\* A lookup that would return the last match instead of the first.
FindIfLast(collection, name) ==
  IF \E k \in 1..Len(collection) : collection[k].name = name
    THEN CHOOSE k \in 1..Len(collection) :
           /\ collection[k].name = name
           /\ \A j \in (k + 1)..Len(collection) : collection[j].name # name
    ELSE Len(collection) + 1

\* std::find_if over a collection for the entity named name: the 1-based
\* place of the first match, or the place past the last entity for end().
FindIf(collection, name) ==
  IF \E k \in 1..Len(collection) : collection[k].name = name
    THEN CHOOSE k \in 1..Len(collection) :
           /\ collection[k].name = name
           /\ \A j \in 1..(k - 1) : collection[j].name # name
    ELSE Len(collection) + 1

HasLayoutNamed(name) == FindIf(scenes, name) # Len(scenes) + 1

RECURSIVE PositionFrom(_, _, _)
\* The for loop of Get...Position from the 1-based place k on: the place of
\* the first entity named name, npos when the loop ends without a return.
PositionFrom(collection, name, k) ==
  IF k > Len(collection) THEN npos
  ELSE IF collection[k].name = name THEN k
  ELSE PositionFrom(collection, name, k + 1)

\* A position lookup that would return the last place holding the name.
GetLayoutPositionOfLast(name) ==
  IF FindIfLast(scenes, name) = Len(scenes) + 1
    THEN npos ELSE FindIfLast(scenes, name)

GetLayoutPosition(name) == PositionFrom(scenes, name, 1)

\* Dereferences end() when no scene has the name: only read under
\* HasLayoutNamed(name).
GetLayout(name) == scenes[FindIf(scenes, name)]

\* Only read under HasEventsFunctionsExtensionNamed(name).
GetEventsFunctionsExtension(name) ==
  eventsFunctionsExtensions[FindIf(eventsFunctionsExtensions, name)]

\* The identity of the next allocation: the allocator reuses what was freed.
UnusedId(layouts, extensions) ==
  CHOOSE id \in 1..(Len(layouts) + Len(extensions) + 1) :
    /\ \A k \in 1..Len(layouts) : layouts[k].id # id
    /\ \A k \in 1..Len(extensions) : extensions[k].id # id
    /\ \A smaller \in 1..(id - 1) :
         \/ \E k \in 1..Len(layouts) : layouts[k].id = smaller
         \/ \E k \in 1..Len(extensions) : extensions[k].id = smaller

\* A swap that would copy the second entity over the first.
IterAssign(collection, first, second) ==
  [k \in 1..Len(collection) |->
     IF k = first + 1 THEN collection[second + 1] ELSE collection[k]]

\* The vector after iter_swap(begin() + first, begin() + second).
IterSwap(collection, first, second) ==
  [k \in 1..Len(collection) |->
     IF k = first + 1 THEN collection[second + 1]
     ELSE IF k = second + 1 THEN collection[first + 1]
     ELSE collection[k]]

\* A move that would exchange the entities at oldIndex and newIndex.
MoveByExchange(collection, oldIndex, newIndex) ==
  [k \in 1..Len(collection) |->
     IF k = oldIndex + 1 THEN collection[newIndex + 1]
     ELSE IF k = newIndex + 1 THEN collection[oldIndex + 1]
     ELSE collection[k]]

\* The vector after the erase at oldIndex and the insert at newIndex.
EraseAndInsert(collection, oldIndex, newIndex) ==
  InsertAt(RemoveAt(collection, oldIndex + 1), newIndex + 1,
           collection[oldIndex + 1])

\* A call of a collection operation: its arguments, what it returned and the
\* collection it was called on, as it was when the call was made.
Call(op, name, first, second, returned, before) ==
  [op |-> op, name |-> name, first |-> first, second |-> second,
   returned |-> returned, before |-> before]

InsertNewLayout ==
  /\ Len(scenes) + Len(eventsFunctionsExtensions) < MaxEntities
  /\ \E name \in EntityNames, position \in Positions :
       LET newlyInsertedLayout == NewEntity(nextId, name)
           inserted == Emplace(scenes, position, newlyInsertedLayout)
       IN  /\ scenes' = inserted
           /\ nextId' = UnusedId(inserted, eventsFunctionsExtensions)
           /\ lastCall' = Call("InsertNewLayout", name, position, 0,
                               newlyInsertedLayout.id, scenes)
  /\ UNCHANGED <<pc, ret, eventsFunctionsExtensions,
                 eventsFunctionsExtensionsElement, extensionNameToElementIndex,
                 objectTypeToVariantsElement, i, remainingExtensionNames,
                 loadOrderExtensionNames, foundAnyExtension, orderIndex, log,
                 errors, extensionsBefore>>
  /\ UNCHANGED <<document, toolVersion, platformManager, gdMajorVersion,
                 gdMinorVersion, gdBuildVersion, revision, warnings, projectName,
                 useDeprecatedZeroAsDefaultZOrder, currentPlatformName,
                 loadedPlatformNames, platforms, currentPlatform,
                 externalEvents, externalLayouts>>
  /\ UNCHANGED otherVars

RemoveLayout ==
  /\ \E name \in EntityNames :
       LET scene == FindIf(scenes, name)
           erased == IF scene = Len(scenes) + 1
                       THEN scenes ELSE RemoveAt(scenes, scene)
       IN  /\ scenes' = erased
           /\ nextId' = UnusedId(erased, eventsFunctionsExtensions)
           /\ lastCall' = Call("RemoveLayout", name, 0, 0, 0, scenes)
  /\ UNCHANGED <<pc, ret, eventsFunctionsExtensions,
                 eventsFunctionsExtensionsElement, extensionNameToElementIndex,
                 objectTypeToVariantsElement, i, remainingExtensionNames,
                 loadOrderExtensionNames, foundAnyExtension, orderIndex, log,
                 errors, extensionsBefore>>
  /\ UNCHANGED <<document, toolVersion, platformManager, gdMajorVersion,
                 gdMinorVersion, gdBuildVersion, revision, warnings, projectName,
                 useDeprecatedZeroAsDefaultZOrder, currentPlatformName,
                 loadedPlatformNames, platforms, currentPlatform,
                 externalEvents, externalLayouts>>
  /\ UNCHANGED otherVars

MoveLayout ==
  /\ \E oldIndex \in Indexes, newIndex \in Indexes :
       /\ scenes' = IF oldIndex >= Len(scenes) \/ newIndex >= Len(scenes)
                      THEN scenes
                      ELSE EraseAndInsert(scenes, oldIndex, newIndex)
       /\ lastCall' = Call("MoveLayout", "", oldIndex, newIndex, 0, scenes)
  /\ UNCHANGED <<pc, ret, eventsFunctionsExtensions, nextId,
                 eventsFunctionsExtensionsElement, extensionNameToElementIndex,
                 objectTypeToVariantsElement, i, remainingExtensionNames,
                 loadOrderExtensionNames, foundAnyExtension, orderIndex, log,
                 errors, extensionsBefore>>
  /\ UNCHANGED <<document, toolVersion, platformManager, gdMajorVersion,
                 gdMinorVersion, gdBuildVersion, revision, warnings, projectName,
                 useDeprecatedZeroAsDefaultZOrder, currentPlatformName,
                 loadedPlatformNames, platforms, currentPlatform,
                 externalEvents, externalLayouts>>
  /\ UNCHANGED otherVars

SwapLayouts ==
  /\ \E first \in Indexes, second \in Indexes :
       /\ scenes' = IF first >= Len(scenes) \/ second >= Len(scenes)
                      THEN scenes
                      ELSE IterSwap(scenes, first, second)
       /\ lastCall' = Call("SwapLayouts", "", first, second, 0, scenes)
  /\ UNCHANGED <<pc, ret, eventsFunctionsExtensions, nextId,
                 eventsFunctionsExtensionsElement, extensionNameToElementIndex,
                 objectTypeToVariantsElement, i, remainingExtensionNames,
                 loadOrderExtensionNames, foundAnyExtension, orderIndex, log,
                 errors, extensionsBefore>>
  /\ UNCHANGED <<document, toolVersion, platformManager, gdMajorVersion,
                 gdMinorVersion, gdBuildVersion, revision, warnings, projectName,
                 useDeprecatedZeroAsDefaultZOrder, currentPlatformName,
                 loadedPlatformNames, platforms, currentPlatform,
                 externalEvents, externalLayouts>>
  /\ UNCHANGED otherVars

InsertNewEventsFunctionsExtension ==
  /\ Len(scenes) + Len(eventsFunctionsExtensions) < MaxEntities
  /\ \E name \in EntityNames, position \in Positions :
       LET newlyInsertedEventsFunctionsExtension ==
             NewEventsFunctionsExtension(nextId, name)
           inserted == Emplace(eventsFunctionsExtensions, position,
                               newlyInsertedEventsFunctionsExtension)
       IN  /\ eventsFunctionsExtensions' = inserted
           /\ nextId' = UnusedId(scenes, inserted)
           /\ lastCall' = Call("InsertNewEventsFunctionsExtension", name,
                               position, 0,
                               newlyInsertedEventsFunctionsExtension.id,
                               eventsFunctionsExtensions)
  /\ UNCHANGED <<pc, ret,
                 eventsFunctionsExtensionsElement, extensionNameToElementIndex,
                 objectTypeToVariantsElement, i, remainingExtensionNames,
                 loadOrderExtensionNames, foundAnyExtension, orderIndex, log,
                 errors, extensionsBefore>>
  /\ UNCHANGED <<document, toolVersion, platformManager, gdMajorVersion,
                 gdMinorVersion, gdBuildVersion, revision, warnings, projectName,
                 useDeprecatedZeroAsDefaultZOrder, currentPlatformName,
                 loadedPlatformNames, platforms, currentPlatform, scenes,
                 externalEvents, externalLayouts>>
  /\ UNCHANGED otherVars

RemoveEventsFunctionsExtension ==
  /\ \E name \in EntityNames :
       LET eventsFunctionExtension == FindIf(eventsFunctionsExtensions, name)
           erased == IF eventsFunctionExtension
                          = Len(eventsFunctionsExtensions) + 1
                       THEN eventsFunctionsExtensions
                       ELSE RemoveAt(eventsFunctionsExtensions,
                                     eventsFunctionExtension)
       IN  /\ eventsFunctionsExtensions' = erased
           /\ nextId' = UnusedId(scenes, erased)
           /\ lastCall' = Call("RemoveEventsFunctionsExtension", name, 0, 0, 0,
                               eventsFunctionsExtensions)
  /\ UNCHANGED <<pc, ret,
                 eventsFunctionsExtensionsElement, extensionNameToElementIndex,
                 objectTypeToVariantsElement, i, remainingExtensionNames,
                 loadOrderExtensionNames, foundAnyExtension, orderIndex, log,
                 errors, extensionsBefore>>
  /\ UNCHANGED <<document, toolVersion, platformManager, gdMajorVersion,
                 gdMinorVersion, gdBuildVersion, revision, warnings, projectName,
                 useDeprecatedZeroAsDefaultZOrder, currentPlatformName,
                 loadedPlatformNames, platforms, currentPlatform, scenes,
                 externalEvents, externalLayouts>>
  /\ UNCHANGED otherVars

MoveEventsFunctionsExtension ==
  /\ \E oldIndex \in Indexes, newIndex \in Indexes :
       /\ eventsFunctionsExtensions' =
            IF \/ oldIndex >= Len(eventsFunctionsExtensions)
               \/ newIndex >= Len(eventsFunctionsExtensions)
              THEN eventsFunctionsExtensions
              ELSE EraseAndInsert(eventsFunctionsExtensions, oldIndex, newIndex)
       /\ lastCall' = Call("MoveEventsFunctionsExtension", "", oldIndex,
                           newIndex, 0, eventsFunctionsExtensions)
  /\ UNCHANGED <<pc, ret, nextId,
                 eventsFunctionsExtensionsElement, extensionNameToElementIndex,
                 objectTypeToVariantsElement, i, remainingExtensionNames,
                 loadOrderExtensionNames, foundAnyExtension, orderIndex, log,
                 errors, extensionsBefore>>
  /\ UNCHANGED <<document, toolVersion, platformManager, gdMajorVersion,
                 gdMinorVersion, gdBuildVersion, revision, warnings, projectName,
                 useDeprecatedZeroAsDefaultZOrder, currentPlatformName,
                 loadedPlatformNames, platforms, currentPlatform, scenes,
                 externalEvents, externalLayouts>>
  /\ UNCHANGED otherVars

SwapEventsFunctionsExtensions ==
  /\ \E first \in Indexes, second \in Indexes :
       /\ eventsFunctionsExtensions' =
            IF \/ first >= Len(eventsFunctionsExtensions)
               \/ second >= Len(eventsFunctionsExtensions)
              THEN eventsFunctionsExtensions
              ELSE IterSwap(eventsFunctionsExtensions, first, second)
       /\ lastCall' = Call("SwapEventsFunctionsExtensions", "", first,
                           second, 0, eventsFunctionsExtensions)
  /\ UNCHANGED <<pc, ret, nextId,
                 eventsFunctionsExtensionsElement, extensionNameToElementIndex,
                 objectTypeToVariantsElement, i, remainingExtensionNames,
                 loadOrderExtensionNames, foundAnyExtension, orderIndex, log,
                 errors, extensionsBefore>>
  /\ UNCHANGED <<document, toolVersion, platformManager, gdMajorVersion,
                 gdMinorVersion, gdBuildVersion, revision, warnings, projectName,
                 useDeprecatedZeroAsDefaultZOrder, currentPlatformName,
                 loadedPlatformNames, platforms, currentPlatform, scenes,
                 externalEvents, externalLayouts>>
  /\ UNCHANGED otherVars

(* ------- specification: the collection operations on a new project ----- *)

InitCollections ==
  /\ NoOther
  /\ pc = "idle"
  /\ ret = "idle"
  /\ document = NoDocument
  /\ toolVersion = <<5, 4, 74, 1>>
  /\ platformManager = {"GDevelop JS platform"}
  /\ ConstructedProject
  /\ eventsFunctionsExtensions = <<>>
  /\ extensionsBefore = <<>>
  /\ nextId = 1
  /\ eventsFunctionsExtensionsElement = <<>>
  /\ extensionNameToElementIndex = <<>>
  /\ objectTypeToVariantsElement = <<>>
  /\ i = 1
  /\ remainingExtensionNames = <<>>
  /\ loadOrderExtensionNames = <<>>
  /\ foundAnyExtension = FALSE
  /\ orderIndex = 1
  /\ log = <<>>
  /\ errors = <<>>

NextCollections ==
  \/ InsertNewLayout
  \/ RemoveLayout
  \/ MoveLayout
  \/ SwapLayouts
  \/ InsertNewEventsFunctionsExtension
  \/ RemoveEventsFunctionsExtension
  \/ MoveEventsFunctionsExtension
  \/ SwapEventsFunctionsExtensions

SpecCollections == InitCollections /\ [][NextCollections]_vars

(* ------------------------ copying a project --------------------------- *)

\* Scenes of a project to copy.  Its entities are its own: their identities
\* (below 0) are none of those this project allocates.
GameScenes ==
  { <<NewEntity(-1, "Scene")>>,
    <<NewEntity(-1, "Scene"), NewEntity(-2, "Menu")>> }

GameExtensions == { <<NewEventsFunctionsExtension(-3, "Scene")>> }

\* The projects to copy.
Games ==
  [ name : {"Game"},
    useDeprecatedZeroAsDefaultZOrder : {TRUE},
    gdMajorVersion : {4}, gdMinorVersion : {0}, gdBuildVersion : {98},
    currentPlatform : {"GDevelop JS platform"},
    platforms : {<<"GDevelop JS platform">>},
    scenes : GameScenes,
    externalEvents : {<<NewEntity(-1, "Events")>>},
    externalLayouts : {<<NewEntity(-1, "Layout")>>},
    eventsFunctionsExtensions : GameExtensions,
    sceneResourcesPreloading : {"never"},
    sceneResourcesUnloading : {"at-scene-exit"},
    isPlayableWithKeyboard : {TRUE},
    isPlayableWithGamepad : {FALSE},
    isPlayableWithMobile : {TRUE} ]

\* A copy that would hold the entities of the copied vector themselves.
ShareEntities(collection, id) == collection

\* gd::Clone of a vector of owned entities: a new entity for each, a copy of
\* the one at the same place, the new ones having the identities from id on.
Clone(collection, id) ==
  [k \in 1..Len(collection) |-> [collection[k] EXCEPT !.id = id + k - 1]]

\* SetName(name) on the entity of identity id, seen from a vector: every
\* place holding that entity shows the new name.
SetName(collection, id, name) ==
  [k \in 1..Len(collection) |->
     IF collection[k].id = id
       THEN [collection[k] EXCEPT !.name = name] ELSE collection[k]]

\* Project::Init(game), the body of the copy constructor and of operator=.
\* Scenes and extensions share the identities of InsertNew...; external
\* events and external layouts are of other types and numbered apart.
Init ==
  /\ projectName' = game.name
  /\ useDeprecatedZeroAsDefaultZOrder' = game.useDeprecatedZeroAsDefaultZOrder
  /\ gdMajorVersion' = game.gdMajorVersion
  /\ gdMinorVersion' = game.gdMinorVersion
  /\ gdBuildVersion' = game.gdBuildVersion
  /\ currentPlatform' = game.currentPlatform
  /\ platforms' = game.platforms
  /\ scenes' = Clone(game.scenes, 1)
  /\ externalEvents' = Clone(game.externalEvents, 1)
  /\ externalLayouts' = Clone(game.externalLayouts, 1)
  /\ eventsFunctionsExtensions' =
       Clone(game.eventsFunctionsExtensions, Len(game.scenes) + 1)
  /\ nextId' = UnusedId(Clone(game.scenes, 1),
                        Clone(game.eventsFunctionsExtensions,
                              Len(game.scenes) + 1))
  /\ sceneResourcesPreloading' = game.sceneResourcesPreloading
  /\ sceneResourcesUnloading' = game.sceneResourcesUnloading
  /\ isPlayableWithKeyboard' = game.isPlayableWithKeyboard
  /\ isPlayableWithGamepad' = game.isPlayableWithGamepad
  /\ isPlayableWithMobile' = game.isPlayableWithMobile
  /\ lastCall' = Call("Init", "", 0, 0, 0, <<>>)
  /\ UNCHANGED <<pc, ret, eventsFunctionsExtensionsElement,
                 extensionNameToElementIndex, objectTypeToVariantsElement, i,
                 remainingExtensionNames, loadOrderExtensionNames,
                 foundAnyExtension, orderIndex, log, errors, extensionsBefore>>
  /\ UNCHANGED <<document, toolVersion, platformManager, revision, warnings,
                 currentPlatformName, loadedPlatformNames>>
  /\ UNCHANGED <<game, ensuredObject, metadataProvider, serialized, loads>>

\* GetLayout(index).SetName(name) on this project.
SetLayoutName ==
  /\ \E index \in 0..(Len(scenes) - 1), name \in EntityNames :
       LET id == scenes[index + 1].id
       IN  /\ scenes' = SetName(scenes, id, name)
           /\ game' = [game EXCEPT !.scenes = SetName(@, id, name)]
           /\ lastCall' = Call("SetName", name, index, 0, id, scenes)
  /\ UNCHANGED <<pc, ret, eventsFunctionsExtensions, nextId,
                 eventsFunctionsExtensionsElement, extensionNameToElementIndex,
                 objectTypeToVariantsElement, i, remainingExtensionNames,
                 loadOrderExtensionNames, foundAnyExtension, orderIndex, log,
                 errors, extensionsBefore>>
  /\ UNCHANGED <<document, toolVersion, platformManager, gdMajorVersion,
                 gdMinorVersion, gdBuildVersion, revision, warnings, projectName,
                 useDeprecatedZeroAsDefaultZOrder, currentPlatformName,
                 loadedPlatformNames, platforms, currentPlatform,
                 externalEvents, externalLayouts>>
  /\ UNCHANGED <<ensuredObject, metadataProvider, sceneResourcesPreloading,
                 sceneResourcesUnloading, serialized, deviceVars,
                 loads>>

\* game.GetLayout(index).SetName(name) on the copied project.
SetGameLayoutName ==
  /\ \E index \in 0..(Len(game.scenes) - 1), name \in EntityNames :
       LET id == game.scenes[index + 1].id
       IN  /\ game' = [game EXCEPT !.scenes = SetName(@, id, name)]
           /\ scenes' = SetName(scenes, id, name)
           /\ lastCall' = Call("game.SetName", name, index, 0, id, game.scenes)
  /\ UNCHANGED <<pc, ret, eventsFunctionsExtensions, nextId,
                 eventsFunctionsExtensionsElement, extensionNameToElementIndex,
                 objectTypeToVariantsElement, i, remainingExtensionNames,
                 loadOrderExtensionNames, foundAnyExtension, orderIndex, log,
                 errors, extensionsBefore>>
  /\ UNCHANGED <<document, toolVersion, platformManager, gdMajorVersion,
                 gdMinorVersion, gdBuildVersion, revision, warnings, projectName,
                 useDeprecatedZeroAsDefaultZOrder, currentPlatformName,
                 loadedPlatformNames, platforms, currentPlatform,
                 externalEvents, externalLayouts>>
  /\ UNCHANGED <<ensuredObject, metadataProvider, sceneResourcesPreloading,
                 sceneResourcesUnloading, serialized, deviceVars,
                 loads>>

(* ---------- specification: a project constructed as a copy ------------ *)

\* The state after Project(const Project& other): Init(other) has run.
InitCopy ==
  /\ pc = "idle"
  /\ ret = "idle"
  /\ document = NoDocument
  /\ toolVersion = <<5, 4, 74, 1>>
  /\ platformManager = {"GDevelop JS platform"}
  /\ game \in Games
  /\ projectName = game.name
  /\ useDeprecatedZeroAsDefaultZOrder = game.useDeprecatedZeroAsDefaultZOrder
  /\ gdMajorVersion = game.gdMajorVersion
  /\ gdMinorVersion = game.gdMinorVersion
  /\ gdBuildVersion = game.gdBuildVersion
  /\ currentPlatform = game.currentPlatform
  /\ platforms = game.platforms
  /\ scenes = Clone(game.scenes, 1)
  /\ externalEvents = Clone(game.externalEvents, 1)
  /\ externalLayouts = Clone(game.externalLayouts, 1)
  /\ eventsFunctionsExtensions =
       Clone(game.eventsFunctionsExtensions, Len(game.scenes) + 1)
  /\ nextId = UnusedId(scenes, eventsFunctionsExtensions)
  /\ sceneResourcesPreloading = game.sceneResourcesPreloading
  /\ sceneResourcesUnloading = game.sceneResourcesUnloading
  /\ isPlayableWithKeyboard = game.isPlayableWithKeyboard
  /\ isPlayableWithGamepad = game.isPlayableWithGamepad
  /\ isPlayableWithMobile = game.isPlayableWithMobile
  /\ serialized = <<>>
  /\ loads = 0
  /\ lastCall = Call("Init", "", 0, 0, 0, <<>>)
  /\ revision = 0
  /\ warnings = <<>>
  /\ currentPlatformName = ""
  /\ loadedPlatformNames = <<>>
  /\ ensuredObject = "none"
  /\ metadataProvider = "none"
  /\ extensionsBefore = <<>>
  /\ eventsFunctionsExtensionsElement = <<>>
  /\ extensionNameToElementIndex = <<>>
  /\ objectTypeToVariantsElement = <<>>
  /\ i = 1
  /\ remainingExtensionNames = <<>>
  /\ loadOrderExtensionNames = <<>>
  /\ foundAnyExtension = FALSE
  /\ orderIndex = 1
  /\ log = <<>>
  /\ errors = <<>>

NextCopy ==
  \/ Init
  \/ InsertNewLayout
  \/ RemoveLayout
  \/ MoveLayout
  \/ SwapLayouts
  \/ SetLayoutName
  \/ SetGameLayoutName

SpecCopy == InitCopy /\ [][NextCopy]_vars

(* -------------------- EnsureObjectDefaultBehaviors --------------------- *)

\* What MetadataProvider::IsBadBehaviorMetadata recognises: the answer for
\* a behavior type that the platform does not know.
BadMetadata == "bad"

\* The object metadata that MetadataProvider::IsBadObjectMetadata recognises.
BadObjectMetadata == [bad |-> TRUE, defaultBehaviors |-> {}]

\* The behavior types, in the order a set of type names is iterated.
BehaviorTypes == <<"Effect", "Flippable", "Resizable">>

\* The names of the behaviors of an object, in the order of
\* GetAllBehaviorNames.  "Custom" is the default name of no behavior type.
BehaviorNames == <<"Custom", "Flippable", "Resizable">>

DefaultNames == {"Flippable", "Resizable"}

\* A built-in type, a custom object type of extension A, an unknown type.
ObjectTypes == { <<"Sprite">>, GetObjectFullType("A", "Foo"), <<"Unknown">> }

\* The behaviors an object may hold when the function is called: under each
\* name none or one, of any type, default or not, set up by the user.
Behaviors ==
  [type : Range(BehaviorTypes), isDefault : BOOLEAN, content : {"configured"}]

BehaviorMaps ==
  UNION { [names -> Behaviors] : names \in SUBSET Range(BehaviorNames) }

Objects == [name : {"Object"}, type : ObjectTypes, behaviors : BehaviorMaps]

\* The registries: the default behavior types of the built-in object type
\* (the other object types have no metadata), and for each behavior type
\* its default name or no metadata.
MetadataProviders ==
  [ objects :
      { [t \in ObjectTypes |->
           IF t = <<"Sprite">>
             THEN [bad |-> FALSE, defaultBehaviors |-> defaults]
             ELSE BadObjectMetadata] :
          defaults \in SUBSET Range(BehaviorTypes) },
    behaviors : [Range(BehaviorTypes) -> DefaultNames \cup {BadMetadata}] ]

\* gd::MetadataProvider::GetBehaviorMetadata(platform, behaviorType).
GetBehaviorMetadata(behaviorType) == metadataProvider.behaviors[behaviorType]

\* gd::MetadataProvider::GetObjectMetadata(platform, objectType).
GetObjectMetadata(objectType) == metadataProvider.objects[objectType]

\* object.RemoveBehavior(name).
RemoveBehavior(behaviors, name) ==
  [n \in (DOMAIN behaviors) \ {name} |-> behaviors[n]]

\* An addition without SetDefaultBehavior(true).
AddNewBehavior(behaviors, type, name) ==
  [n \in (DOMAIN behaviors) \cup {name} |->
     IF n = name
       THEN [type |-> type, isDefault |-> FALSE, content |-> "fresh"]
       ELSE behaviors[n]]

\* object.AddNewBehavior(project, type, name) followed by
\* SetDefaultBehavior(true): a behavior as its factory makes it.
AddNewDefaultBehavior(behaviors, type, name) ==
  [n \in (DOMAIN behaviors) \cup {name} |->
     IF n = name
       THEN [type |-> type, isDefault |-> TRUE, content |-> "fresh"]
       ELSE behaviors[n]]

\* A lambda that would keep any behavior found under the default name.
addDefaultBehaviorIfAbsent(behaviors, behaviorType) ==
  IF GetBehaviorMetadata(behaviorType) = BadMetadata
    THEN behaviors
    ELSE IF GetBehaviorMetadata(behaviorType) \in DOMAIN behaviors
           THEN behaviors
           ELSE AddNewDefaultBehavior(behaviors, behaviorType,
                                      GetBehaviorMetadata(behaviorType))

\* A lambda whose re-creation would be the alternative of the removal: a
\* behavior removed for its type or flag is only re-created by a later call.
addDefaultBehaviorOrRemove(behaviors, behaviorType) ==
  IF GetBehaviorMetadata(behaviorType) = BadMetadata
    THEN behaviors
    ELSE LET behaviorName == GetBehaviorMetadata(behaviorType)
         IN  IF behaviorName \notin DOMAIN behaviors
               THEN AddNewDefaultBehavior(behaviors, behaviorType,
                                          behaviorName)
               ELSE IF \/ ~behaviors[behaviorName].isDefault
                       \/ behaviors[behaviorName].type # behaviorType
                      THEN RemoveBehavior(behaviors, behaviorName)
                      ELSE behaviors

\* The lambda addDefaultBehavior: the behaviors of the object after it.
addDefaultBehavior(behaviors, behaviorType) ==
  IF GetBehaviorMetadata(behaviorType) = BadMetadata
    THEN behaviors
    ELSE LET behaviorName == GetBehaviorMetadata(behaviorType)
             checked ==
               IF /\ behaviorName \in DOMAIN behaviors
                  /\ \/ ~behaviors[behaviorName].isDefault
                     \/ behaviors[behaviorName].type # behaviorType
                 THEN RemoveBehavior(behaviors, behaviorName)
                 ELSE behaviors
         IN  IF behaviorName \notin DOMAIN checked
               THEN AddNewDefaultBehavior(checked, behaviorType, behaviorName)
               ELSE checked

RECURSIVE AddDefaultBehaviors(_, _, _)
\* The loop over defaultBehaviorTypes from the k-th behavior type on.
AddDefaultBehaviors(behaviors, defaultBehaviorTypes, k) ==
  IF k > Len(BehaviorTypes)
    THEN behaviors
    ELSE AddDefaultBehaviors(
           IF BehaviorTypes[k] \in defaultBehaviorTypes
             THEN addDefaultBehavior(behaviors, BehaviorTypes[k])
             ELSE behaviors,
           defaultBehaviorTypes, k + 1)

\* The warnings of the loop: one for each default behavior type without
\* metadata, in the order of the loop.
UnknownDefaultBehaviors(defaultBehaviorTypes) ==
  SelectSeq(BehaviorTypes,
            LAMBDA t : /\ t \in defaultBehaviorTypes
                       /\ GetBehaviorMetadata(t) = BadMetadata)

\* A second loop that would remove nothing.
KeepStaleDefaultBehaviors(behaviors, names, defaultBehaviorTypes, k) ==
  behaviors

RECURSIVE RemoveStaleDefaultBehaviors(_, _, _, _)
\* The loop over object.GetAllBehaviorNames(), the names being those the
\* object had when the loop started, from the k-th name on.
RemoveStaleDefaultBehaviors(behaviors, names, defaultBehaviorTypes, k) ==
  IF k > Len(BehaviorNames)
    THEN behaviors
    ELSE LET behaviorName == BehaviorNames[k]
         IN  RemoveStaleDefaultBehaviors(
               IF /\ behaviorName \in names
                  /\ behaviors[behaviorName].isDefault
                  /\ behaviors[behaviorName].type \notin defaultBehaviorTypes
                 THEN RemoveBehavior(behaviors, behaviorName)
                 ELSE behaviors,
               names, defaultBehaviorTypes, k + 1)

\* The test of the else branch without its negation.
HasNoEventsBasedObject(type) ==
  ~EventsBasedObjectExists(eventsFunctionsExtensions, type)

\* project.HasEventsBasedObject(type).
HasEventsBasedObject(type) ==
  EventsBasedObjectExists(eventsFunctionsExtensions, type)

EnsureObjectDefaultBehaviors ==
  /\ Len(warnings) < MaxWarnings
  /\ LET objectType == ensuredObject.type
         objectMetadata == GetObjectMetadata(objectType)
         defaultBehaviorTypes == objectMetadata.defaultBehaviors
     IN  IF ~objectMetadata.bad
           THEN LET added == AddDefaultBehaviors(ensuredObject.behaviors,
                                                 defaultBehaviorTypes, 1)
                IN  /\ ensuredObject' =
                         [ensuredObject EXCEPT !.behaviors =
                            RemoveStaleDefaultBehaviors(added, DOMAIN added,
                                                        defaultBehaviorTypes,
                                                        1)]
                    /\ warnings' =
                         warnings
                           \o UnknownDefaultBehaviors(defaultBehaviorTypes)
           ELSE /\ ensuredObject' = ensuredObject
                /\ warnings' = IF ~HasEventsBasedObject(objectType)
                                 THEN Append(warnings, "unknown type")
                                 ELSE warnings
  /\ lastCall' = Call("EnsureObjectDefaultBehaviors", "", 0, 0, 0,
                      ensuredObject.behaviors)
  /\ UNCHANGED <<pc, ret, eventsFunctionsExtensions, nextId,
                 eventsFunctionsExtensionsElement, extensionNameToElementIndex,
                 objectTypeToVariantsElement, i, remainingExtensionNames,
                 loadOrderExtensionNames, foundAnyExtension, orderIndex, log,
                 errors, extensionsBefore>>
  /\ UNCHANGED <<document, toolVersion, platformManager, gdMajorVersion,
                 gdMinorVersion, gdBuildVersion, revision, projectName,
                 useDeprecatedZeroAsDefaultZOrder, currentPlatformName,
                 loadedPlatformNames, platforms, currentPlatform, scenes,
                 externalEvents, externalLayouts>>
  /\ UNCHANGED <<game, metadataProvider, sceneResourcesPreloading,
                 sceneResourcesUnloading, serialized, deviceVars,
                 loads>>

(* ---- specification: EnsureObjectDefaultBehaviors called on an object --- *)

InitBehaviors ==
  /\ pc = "idle"
  /\ ret = "idle"
  /\ document = NoDocument
  /\ toolVersion = <<5, 4, 74, 1>>
  /\ platformManager = {"GDevelop JS platform"}
  /\ ConstructedProject
  /\ game = "none"
  /\ serialized = <<>>
  /\ loads = 0
  /\ ensuredObject \in Objects
  /\ metadataProvider \in MetadataProviders
  /\ eventsFunctionsExtensions \in ExistingExtensions
  /\ extensionsBefore = eventsFunctionsExtensions
  /\ nextId = 2
  /\ eventsFunctionsExtensionsElement = <<>>
  /\ extensionNameToElementIndex = <<>>
  /\ objectTypeToVariantsElement = <<>>
  /\ i = 1
  /\ remainingExtensionNames = <<>>
  /\ loadOrderExtensionNames = <<>>
  /\ foundAnyExtension = FALSE
  /\ orderIndex = 1
  /\ log = <<>>
  /\ errors = <<>>

NextBehaviors == EnsureObjectDefaultBehaviors

SpecBehaviors == InitBehaviors /\ [][NextBehaviors]_vars

(* -------------------------- Project::SerializeTo ----------------------- *)

\* An optional attribute that SerializeTo sets only when the value is not
\* the default one.
UnlessDefault(value, defaultValue) ==
  IF value # defaultValue THEN Present(value) ELSE Absent

\* EventsFunctionsExtension::SerializeTo: the "eventsFunctionsExtension"
\* element of an extension, its custom objects with their children and
\* variants.
SerializeExtension(extension) ==
  [name |-> extension.name,
   eventsBasedObjects |->
     [k \in 1..Len(extension.eventsBasedObjects) |->
        [name |-> extension.eventsBasedObjects[k].name,
         objects |-> extension.eventsBasedObjects[k].objects,
         variants |-> extension.eventsBasedObjects[k].variants]]]

\* The names of the entities of a collection, in order: one child element
\* for each.
SerializeAll(collection) == [k \in 1..Len(collection) |-> collection[k].name]

\* The element that Project::SerializeTo fills from the members of the
\* project; a NULL platform is skipped and a NULL current platform leaves no
\* "currentPlatform" child.
SerializedElement ==
  [gdVersion |->
     [major |-> Present(toolVersion[1]), minor |-> Present(toolVersion[2]),
      build |-> Present(toolVersion[3]), revision |-> Present(toolVersion[4])],
   name |-> projectName,
   useDeprecatedZeroAsDefaultZOrder |->
     IF useDeprecatedZeroAsDefaultZOrder THEN Present(TRUE) ELSE Absent,
   platforms |-> SelectSeq(platforms, LAMBDA platform : platform # NULL),
   currentPlatform |-> IF currentPlatform # NULL THEN currentPlatform ELSE "",
   playableDevices |->
     (IF isPlayableWithKeyboard THEN <<"keyboard">> ELSE <<>>)
       \o (IF isPlayableWithGamepad THEN <<"gamepad">> ELSE <<>>)
       \o (IF isPlayableWithMobile THEN <<"mobile">> ELSE <<>>),
   sceneResourcesPreloading |->
     UnlessDefault(sceneResourcesPreloading, "at-startup"),
   sceneResourcesUnloading |->
     UnlessDefault(sceneResourcesUnloading, "never"),
   layouts |-> SerializeAll(scenes),
   externalEvents |-> SerializeAll(externalEvents),
   eventsFunctionsExtensions |->
     [k \in 1..Len(eventsFunctionsExtensions) |->
        SerializeExtension(eventsFunctionsExtensions[k])],
   externalLayouts |-> SerializeAll(externalLayouts)]

\* Project::SerializeTo(element), called on the project before the round
\* trip and on the project that has unserialized the first element.
SerializeTo ==
  /\ pc \in {"idle", "done"}
  /\ Len(serialized) < 2
  /\ serialized' = Append(serialized, SerializedElement)
  /\ pc' = IF pc = "idle" THEN "serialized" ELSE "reserialized"
  /\ UNCHANGED <<ret, eventsFunctionsExtensions, nextId,
                 eventsFunctionsExtensionsElement, extensionNameToElementIndex,
                 objectTypeToVariantsElement, i, remainingExtensionNames,
                 loadOrderExtensionNames, foundAnyExtension, orderIndex, log,
                 errors, extensionsBefore>>
  /\ UNCHANGED loadVars
  /\ UNCHANGED lastCall
  /\ UNCHANGED <<game, ensuredObject, metadataProvider,
                 sceneResourcesPreloading, sceneResourcesUnloading,
                 deviceVars, loads>>

\* A new project is constructed and UnserializeFrom is called on it with
\* the element that SerializeTo has filled.
UnserializeIntoNewProject ==
  /\ pc = "serialized"
  /\ document' = serialized[1]
  /\ pc' = "gdVersion"
  /\ ret' = "objects"
  /\ gdMajorVersion' = toolVersion[1]
  /\ gdMinorVersion' = toolVersion[2]
  /\ gdBuildVersion' = toolVersion[3]
  /\ revision' = 0
  /\ warnings' = <<>>
  /\ projectName' = "Project"
  /\ useDeprecatedZeroAsDefaultZOrder' = FALSE
  /\ currentPlatformName' = ""
  /\ loadedPlatformNames' = <<>>
  /\ platforms' = <<>>
  /\ currentPlatform' = NULL
  /\ scenes' = <<>>
  /\ externalEvents' = <<>>
  /\ externalLayouts' = <<>>
  /\ sceneResourcesPreloading' = "at-startup"
  /\ sceneResourcesUnloading' = "never"
  /\ isPlayableWithKeyboard' = FALSE
  /\ isPlayableWithGamepad' = FALSE
  /\ isPlayableWithMobile' = FALSE
  /\ eventsFunctionsExtensions' = <<>>
  /\ extensionsBefore' = <<>>
  /\ eventsFunctionsExtensionsElement' = <<>>
  /\ extensionNameToElementIndex' = <<>>
  /\ objectTypeToVariantsElement' = <<>>
  /\ i' = 1
  /\ remainingExtensionNames' = <<>>
  /\ loadOrderExtensionNames' = <<>>
  /\ foundAnyExtension' = FALSE
  /\ orderIndex' = 1
  /\ log' = <<>>
  /\ errors' = <<>>
  /\ lastCall' = NoCall
  /\ UNCHANGED <<nextId, toolVersion, platformManager, game, ensuredObject,
                 metadataProvider, serialized, loads>>

(* ----- specification: serialize, unserialize, serialize again ---------- *)

\* The platforms of a project and its current platform: none (a project as
\* constructed) or the ones AddPlatform has added.
ProjectPlatforms ==
  { <<<<>>, NULL>>,
    <<<<"GDevelop JS platform">>, "GDevelop JS platform">> }

\* The scenes of a project.
ProjectScenes ==
  { <<>>, <<NewEntity(1, "Scene")>>,
    <<NewEntity(1, "Scene"), NewEntity(2, "Menu")>> }

\* The extensions of a project: none, or A and B in either order, the custom
\* object of A embedding a type of B and carrying variants of the user.
ProjectExtensions ==
  LET A == [id |-> 3, name |-> "A",
            eventsBasedObjects |->
              << [name |-> "Foo", variants |-> "user",
                  objects |-> << GetObjectFullType("B", "Bar") >>] >>]
      B == [id |-> 4, name |-> "B", eventsBasedObjects |-> <<>>]
  IN  { <<>>, <<A, B>>, <<B, A>> }

\* The values of the two scene resources properties: the default one and
\* another one.
PreloadingValues == {"at-startup", "never"}

UnloadingValues == {"never", "at-scene-exit"}

InitRoundTrip ==
  /\ pc = "idle"
  /\ ret = "idle"
  /\ document = NoDocument
  /\ toolVersion = <<5, 4, 74, 1>>
  /\ platformManager \in PlatformManagers
  /\ gdMajorVersion = toolVersion[1]
  /\ gdMinorVersion = toolVersion[2]
  /\ gdBuildVersion = toolVersion[3]
  /\ revision = 0
  /\ warnings = <<>>
  /\ projectName = "Game"
  /\ useDeprecatedZeroAsDefaultZOrder \in BOOLEAN
  /\ currentPlatformName = ""
  /\ loadedPlatformNames = <<>>
  /\ \E project \in ProjectPlatforms :
       /\ platforms = project[1]
       /\ currentPlatform = project[2]
  /\ scenes \in ProjectScenes
  /\ externalEvents = <<NewEntity(1, "Events")>>
  /\ externalLayouts = <<NewEntity(1, "Layout")>>
  /\ sceneResourcesPreloading \in PreloadingValues
  /\ sceneResourcesUnloading \in UnloadingValues
  /\ isPlayableWithKeyboard \in BOOLEAN
  /\ isPlayableWithGamepad = FALSE
  /\ isPlayableWithMobile = TRUE
  /\ eventsFunctionsExtensions \in ProjectExtensions
  /\ extensionsBefore = eventsFunctionsExtensions
  /\ nextId = 5
  /\ lastCall = NoCall
  /\ NoOther
  /\ eventsFunctionsExtensionsElement = <<>>
  /\ extensionNameToElementIndex = <<>>
  /\ objectTypeToVariantsElement = <<>>
  /\ i = 1
  /\ remainingExtensionNames = <<>>
  /\ loadOrderExtensionNames = <<>>
  /\ foundAnyExtension = FALSE
  /\ orderIndex = 1
  /\ log = <<>>
  /\ errors = <<>>

NextRoundTrip ==
  \/ SerializeTo
  \/ UnserializeIntoNewProject
  \/ UnserializeFrom

SpecRoundTrip == InitRoundTrip /\ [][NextRoundTrip]_vars

(* --------- Project::SetCurrentPlatform, Project::RemovePlatform -------- *)

\* How many times the model lets UnserializeFrom be called on a project.
MaxLoads == 2

\* The platforms that may be given to AddPlatform: two that
\* gd::PlatformManager may know and one of another origin.
PlatformObjects ==
  {"GDevelop JS platform", "GDevelop C++ platform", "Other platform"}

\* The names given to SetCurrentPlatform and RemovePlatform.
PlatformNames == PlatformObjects \cup {"Unknown platform"}

\* The first index of the loop "platforms[i]->GetName() == platformName"
\* at which the test holds, npos when there is none.
FirstPlatformNamed(list, platformName) ==
  LET found == { k \in 1..Len(list) : list[k] = platformName }
  IN  IF found = {} THEN npos ELSE CHOOSE k \in found : \A j \in found : k <= j

\* The loop calls GetName() through a NULL entry before it stops.
DereferencesNull(list, platformName) ==
  \E k \in 1..Len(list) :
    /\ list[k] = NULL
    /\ \/ FirstPlatformNamed(list, platformName) = npos
       \/ k < FirstPlatformNamed(list, platformName)

\* What a call through a NULL entry can do: the behaviour is undefined, the
\* call crashes or the test on that entry fails and the loop goes on.
LoopOutcomes(list, platformName) ==
  IF DereferencesNull(list, platformName) THEN {"crashed", "passed"} ELSE {"passed"}

\* Project::SetCurrentPlatform: the current platform after the call.
SetCurrentPlatform(list, current, platformName) ==
  IF FirstPlatformNamed(list, platformName) = npos
    THEN current
    ELSE list[FirstPlatformNamed(list, platformName)]

\* A removal that would not test the number of platforms.
RemovePlatformEvenIfLast(list, current, platformName) ==
  LET k == FirstPlatformNamed(list, platformName)
  IN  IF k = npos
        THEN <<list, current, FALSE>>
        ELSE <<RemoveAt(list, k),
               IF current = list[k] /\ Len(list) = 1 THEN list[1]
               ELSE IF current = list[k] THEN list[Len(list)]
               ELSE current,
               TRUE>>

\* Project::RemovePlatform: <<platforms, currentPlatform, returned value>>.
RemovePlatform(list, current, platformName) ==
  IF Len(list) <= 1
    THEN <<list, current, FALSE>>
    ELSE LET k == FirstPlatformNamed(list, platformName)
         IN  IF k = npos
               THEN <<list, current, FALSE>>
               ELSE LET back == IF current = list[k]
                                  THEN list[Len(list)] ELSE current
                        front == IF back = list[k] THEN list[1] ELSE back
                    IN  <<RemoveAt(list, k), front, TRUE>>

\* AddPlatform(platform) called on the project.
AddPlatformCall ==
  /\ pc \in {"idle", "done"}
  /\ \E platform \in PlatformObjects :
       LET added == AddPlatform(platforms, currentPlatform, platform)
       IN  /\ platforms' = added[1]
           /\ currentPlatform' = added[2]
           /\ lastCall' = Call("AddPlatform", platform, 0, 0, FALSE,
                               <<platforms, currentPlatform>>)
  /\ UNCHANGED extVars
  /\ UNCHANGED <<document, toolVersion, platformManager, gdMajorVersion,
                 gdMinorVersion, gdBuildVersion, revision, warnings, projectName,
                 useDeprecatedZeroAsDefaultZOrder, currentPlatformName,
                 loadedPlatformNames, scenes, externalEvents, externalLayouts>>
  /\ UNCHANGED otherVars

\* SetCurrentPlatform(platformName) called on the project.
SetCurrentPlatformCall ==
  /\ pc \in {"idle", "done"}
  /\ \E platformName \in PlatformNames :
       \E outcome \in LoopOutcomes(platforms, platformName) :
         /\ pc' = IF outcome = "crashed" THEN "crashed" ELSE pc
         /\ currentPlatform' =
              IF outcome = "crashed"
                THEN currentPlatform
                ELSE SetCurrentPlatform(platforms, currentPlatform, platformName)
         /\ lastCall' = Call("SetCurrentPlatform", platformName, 0, 0, FALSE,
                             <<platforms, currentPlatform>>)
  /\ UNCHANGED <<ret, eventsFunctionsExtensions, nextId,
                 eventsFunctionsExtensionsElement, extensionNameToElementIndex,
                 objectTypeToVariantsElement, i, remainingExtensionNames,
                 loadOrderExtensionNames, foundAnyExtension, orderIndex, log,
                 errors, extensionsBefore>>
  /\ UNCHANGED <<document, toolVersion, platformManager, gdMajorVersion,
                 gdMinorVersion, gdBuildVersion, revision, warnings, projectName,
                 useDeprecatedZeroAsDefaultZOrder, currentPlatformName,
                 loadedPlatformNames, platforms, scenes, externalEvents,
                 externalLayouts>>
  /\ UNCHANGED otherVars

\* RemovePlatform(platformName) called on the project.
RemovePlatformCall ==
  /\ pc \in {"idle", "done"}
  /\ \E platformName \in PlatformNames :
       \E outcome \in IF Len(platforms) <= 1
                        THEN {"passed"}
                        ELSE LoopOutcomes(platforms, platformName) :
         LET removed == IF outcome = "crashed"
                          THEN <<platforms, currentPlatform, FALSE>>
                          ELSE RemovePlatform(platforms, currentPlatform,
                                              platformName)
         IN  /\ pc' = IF outcome = "crashed" THEN "crashed" ELSE pc
             /\ platforms' = removed[1]
             /\ currentPlatform' = removed[2]
             /\ lastCall' = Call("RemovePlatform", platformName, 0, 0,
                                 removed[3], <<platforms, currentPlatform>>)
  /\ UNCHANGED <<ret, eventsFunctionsExtensions, nextId,
                 eventsFunctionsExtensionsElement, extensionNameToElementIndex,
                 objectTypeToVariantsElement, i, remainingExtensionNames,
                 loadOrderExtensionNames, foundAnyExtension, orderIndex, log,
                 errors, extensionsBefore>>
  /\ UNCHANGED <<document, toolVersion, platformManager, gdMajorVersion,
                 gdMinorVersion, gdBuildVersion, revision, warnings, projectName,
                 useDeprecatedZeroAsDefaultZOrder, currentPlatformName,
                 loadedPlatformNames, scenes, externalEvents, externalLayouts>>
  /\ UNCHANGED otherVars

\* UnserializeFrom(element) is called on the project as it is, with one of
\* the given documents; the locals of the call are new.  The call is
\* recorded with the platforms, the current platform, the four collections
\* and the playable-device flags that the project had.
UnserializeFromCall(documents) ==
  /\ pc \in {"idle", "done"}
  /\ loads < MaxLoads
  /\ loads' = loads + 1
  /\ document' \in documents
  /\ pc' = "gdVersion"
  /\ ret' = "objects"
  /\ revision' = 0
  /\ currentPlatformName' = ""
  /\ loadedPlatformNames' = <<>>
  /\ eventsFunctionsExtensionsElement' = <<>>
  /\ extensionNameToElementIndex' = <<>>
  /\ objectTypeToVariantsElement' = <<>>
  /\ i' = 1
  /\ remainingExtensionNames' = <<>>
  /\ loadOrderExtensionNames' = <<>>
  /\ foundAnyExtension' = FALSE
  /\ orderIndex' = 1
  /\ log' = <<>>
  /\ extensionsBefore' = eventsFunctionsExtensions
  /\ lastCall' = Call("UnserializeFrom", "", 0, 0, FALSE,
                      <<platforms, currentPlatform, scenes, externalEvents,
                        externalLayouts, eventsFunctionsExtensions,
                        deviceVars>>)
  /\ UNCHANGED <<eventsFunctionsExtensions, nextId, errors>>
  /\ UNCHANGED <<toolVersion, platformManager, gdMajorVersion, gdMinorVersion,
                 gdBuildVersion, warnings, projectName,
                 useDeprecatedZeroAsDefaultZOrder, platforms, currentPlatform,
                 scenes, externalEvents, externalLayouts>>
  /\ UNCHANGED <<game, ensuredObject, metadataProvider,
                 sceneResourcesPreloading, sceneResourcesUnloading, serialized,
                 deviceVars>>

(* --- specification: the platforms of a project, through calls and loads - *)

\* A document without "gdVersion".
NoVersion ==
  [major |-> Absent, minor |-> Absent, build |-> Absent, revision |-> Absent]

\* Documents that differ by their platforms and their current platform:
\* none listed, known ones, an unknown one.
PlatformDocuments ==
  [gdVersion : {NoVersion},
   name : {"Game"},
   useDeprecatedZeroAsDefaultZOrder : {Absent},
   currentPlatform : {"", "GDevelop JS platform", "GDevelop C++ platform"},
   playableDevices : { <<>> },
   platforms : { <<>>, <<"GDevelop JS platform">>,
                 <<"GDevelop C++ platform", "GDevelop JS platform">>,
                 <<"Unknown platform">>,
                 <<"GDevelop JS platform", "Unknown platform">> },
   eventsFunctionsExtensions :
     { << [name |-> "B", eventsBasedObjects |-> <<>>] >> },
   layouts : { <<"Scene">> },
   externalEvents : { <<>> },
   externalLayouts : { <<>> }]

\* A new project.
InitPlatforms ==
  /\ NoOther
  /\ pc = "idle"
  /\ ret = "idle"
  /\ document = NoDocument
  /\ toolVersion = <<5, 4, 74, 1>>
  /\ platformManager \in PlatformManagers
  /\ ConstructedProject
  /\ eventsFunctionsExtensions = <<>>
  /\ extensionsBefore = <<>>
  /\ nextId = 1
  /\ eventsFunctionsExtensionsElement = <<>>
  /\ extensionNameToElementIndex = <<>>
  /\ objectTypeToVariantsElement = <<>>
  /\ i = 1
  /\ remainingExtensionNames = <<>>
  /\ loadOrderExtensionNames = <<>>
  /\ foundAnyExtension = FALSE
  /\ orderIndex = 1
  /\ log = <<>>
  /\ errors = <<>>

NextPlatforms ==
  \/ AddPlatformCall
  \/ SetCurrentPlatformCall
  \/ RemovePlatformCall
  \/ UnserializeFromCall(PlatformDocuments)
  \/ UnserializeFrom

SpecPlatforms == InitPlatforms /\ [][NextPlatforms]_vars

(* ====================================================================== *)
(* Properties of the extension loading (checked under SpecExtensions)     *)
(* ====================================================================== *)

Document == eventsFunctionsExtensionsElement

DocumentNames == { Document[k].name : k \in 1..Len(Document) }

DistinctNames ==
  \A a, b \in 1..Len(Document) : a # b => Document[a].name # Document[b].name

\* The element that stands for extension n: the last one carrying the name,
\* the one both the resolver and phase 2 read.
LastElementNamed(n) ==
  Document[CHOOSE k \in 1..Len(Document) :
             /\ Document[k].name = n
             /\ \A j \in 1..Len(Document) : Document[j].name = n => j <= k]

\* t is a full type "n::..." of extension n.
IsTypeOf(t, n) == Len(t) = 3 /\ t[2] = "::" /\ t[1] = n

\* A custom object of document extension a embeds a child whose type is
\* owned by the other document extension b.
Embeds(a, b) ==
  /\ a # b
  /\ a \in DocumentNames
  /\ b \in DocumentNames
  /\ \E o \in 1..Len(LastElementNamed(a).eventsBasedObjects) :
       \E c \in 1..Len(LastElementNamed(a).eventsBasedObjects[o].objects) :
         IsTypeOf(LastElementNamed(a).eventsBasedObjects[o].objects[c], b)

RECURSIVE EmbeddedWithin(_, _)
\* The extensions reached from the set S by at most k embeddings.
EmbeddedWithin(S, k) ==
  IF k = 0
    THEN S
    ELSE EmbeddedWithin(S \cup { b \in DocumentNames : \E a \in S : Embeds(a, b) },
                        k - 1)

AcyclicDocument ==
  \A a \in DocumentNames :
    a \notin EmbeddedWithin({ b \in DocumentNames : Embeds(a, b) },
                            Cardinality(DocumentNames))

\* The resolver has returned its order.
OrderReturned == pc \in {"implement", "done", "crashed"}

PositionsIn(s, x) == { k \in 1..Len(s) : s[k] = x }

\* C1: with distinct names and an acyclic embedding graph, the order
\* returned by GetUnserializingOrderExtensionNames holds every extension and
\* places each one strictly after every other extension of the document one
\* of whose types its custom objects embed.
C1_OrderRespectsDependencies ==
  (OrderReturned /\ DistinctNames /\ AcyclicDocument) =>
    /\ \A n \in DocumentNames :
         Cardinality(PositionsIn(loadOrderExtensionNames, n)) = 1
    /\ \A a, b \in DocumentNames :
         Embeds(a, b) =>
           \A p \in PositionsIn(loadOrderExtensionNames, a) :
             \E q \in PositionsIn(loadOrderExtensionNames, b) : q < p

\* C1 witness: A (first in the document) embeds B::Bar and the order is [B, A].
C1_Witness ==
  /\ OrderReturned
  /\ Len(Document) = 2
  /\ Document[1].name = "A"
  /\ Document[2].name = "B"
  /\ Embeds("A", "B")
  /\ ~Embeds("B", "A")
  /\ loadOrderExtensionNames = <<"B", "A">>

\* C2 (as claimed): for every input the order returned by the resolver is a
\* permutation of the names of the document.
C2_OrderIsPermutation ==
  OrderReturned =>
    /\ Len(loadOrderExtensionNames) = Len(Document)
    /\ \A n \in DocumentNames :
         Cardinality(PositionsIn(loadOrderExtensionNames, n))
           = Cardinality(PositionsIn(ElementNames(Document), n))

ImplementationsOf(n) ==
  { p \in 1..Len(log) : log[p].kind = "implement" /\ log[p].name = n }

\* C3 (as claimed): once UnserializeAndInsertExtensionsFrom has returned,
\* the implementation of every extension of the document has been
\* unserialized exactly once.
C3_ImplementedExactlyOnce ==
  pc = "done" =>
    \A n \in DocumentNames : Cardinality(ImplementationsOf(n)) = 1

\* C4: for an acyclic document, whenever the implementation of an extension
\* is unserialized, the implementation of every other document extension
\* whose types it embeds has been unserialized before.
C4_ImplementedAfterDependencies ==
  \A p \in 1..Len(log) :
    log[p].kind = "implement" =>
      \A b \in DocumentNames :
        (Embeds(log[p].name, b) /\ AcyclicDocument) =>
          \E q \in 1..(p - 1) :
            log[q].kind = "implement" /\ log[q].name = b

\* C4 witness: a chain C -> B -> A given in the order C, B, A and
\* implemented in the order A, B, C.
C4_Witness ==
  /\ pc = "done"
  /\ AcyclicDocument
  /\ ElementNames(Document) = <<"C", "B", "A">>
  /\ Embeds("C", "B")
  /\ Embeds("B", "A")
  /\ \E p, q, r \in 1..Len(log) :
       /\ p < q
       /\ q < r
       /\ log[p].kind = "implement" /\ log[p].name = "A"
       /\ log[q].kind = "implement" /\ log[q].name = "B"
       /\ log[r].kind = "implement" /\ log[r].name = "C"

\* The variants of custom object type t in the extensions es ("none" when
\* the type is not declared).
VariantsOf(es, t) ==
  IF EventsBasedObjectExists(es, t)
    THEN es[EventsBasedObjectPosition(es, t)[1]]
           .eventsBasedObjects[EventsBasedObjectPosition(es, t)[2]].variants
    ELSE "none"

\* The document declares again the custom object type t.
DeclaredByDocument(t) ==
  \E k \in 1..Len(Document) :
    \E o \in 1..Len(Document[k].eventsBasedObjects) :
      t = <<Document[k].name, "::", Document[k].eventsBasedObjects[o].name>>

\* C5 (as claimed): a custom object type declared before the load and
\* declared again by the document has, once the load is complete, the
\* variants it had before the load.
C5_VariantsKept ==
  pc = "done" =>
    \A t \in { <<n, "::", "Foo">> : n \in ExtensionNames } :
      (EventsBasedObjectExists(extensionsBefore, t) /\ DeclaredByDocument(t)) =>
        VariantsOf(eventsFunctionsExtensions, t) = VariantsOf(extensionsBefore, t)

\* C24 (as claimed): for an acyclic document, whenever the variant snapshot
\* of a custom object type X::T is re-applied in phase 2, the
\* implementation of every document extension one of whose types the custom
\* objects of X embed has been unserialized before.
C24_RestoredAfterDependencies ==
  \A p \in 1..Len(log) :
    log[p].kind = "restore" =>
      \A t \in log[p].types :
        \A b \in DocumentNames :
          (Embeds(t[1], b) /\ AcyclicDocument) =>
            \E q \in 1..(p - 1) :
              log[q].kind = "implement" /\ log[q].name = b

\* C24 (amended): the side table is re-applied as a whole after the
\* implementation of each extension of the order; for an acyclic document,
\* a re-application of the snapshot of X::T that follows the implementation
\* of X itself follows the implementation of every document extension one
\* of whose types the custom objects of X embed.
C24_RestoredAfterOwnerAndDependencies ==
  \A p \in 1..Len(log) :
    log[p].kind = "restore" =>
      /\ log[p].types = DOMAIN objectTypeToVariantsElement
      /\ log[p - 1].kind = "implement"
      /\ \A t \in log[p].types :
           \A b \in DocumentNames :
             /\ Embeds(t[1], b)
             /\ AcyclicDocument
             /\ \E q \in 1..(p - 1) :
                  log[q].kind = "implement" /\ log[q].name = t[1]
             => \E q \in 1..(p - 1) :
                  log[q].kind = "implement" /\ log[q].name = b

\* C24 witness: the project held A::Foo with variants of the user; the
\* document [A, B], A::Foo embedding B::Bar, has been loaded: B was
\* implemented, then A, and the snapshot of A::Foo re-applied after A.
C24_Witness ==
  /\ pc = "done"
  /\ ElementNames(Document) = <<"A", "B">>
  /\ Embeds("A", "B")
  /\ ~Embeds("B", "A")
  /\ DOMAIN objectTypeToVariantsElement = {GetObjectFullType("A", "Foo")}
  /\ Len(log) = 6
  /\ log[3].kind = "implement" /\ log[3].name = "B"
  /\ log[4].kind = "restore"
  /\ log[5].kind = "implement" /\ log[5].name = "A"
  /\ log[6].kind = "restore"
  /\ GetObjectFullType("A", "Foo") \in log[6].types

\* The places in the document of the extensions one of whose types the
\* custom objects of the k-th extension embed.
EmbeddedBy(k) ==
  { j \in 1..Len(Document) : Embeds(Document[k].name, Document[j].name) }

\* Stands for the pass of an extension that no pass moves.
NoPass == MaxFragments + 2

SetMax(S) == CHOOSE x \in S : \A y \in S : y <= x

RECURSIVE PassOf(_, _, _)
\* The pass that moves the k-th extension of a document with distinct
\* names, followed through at most depth embeddings.  Moved together: an
\* extension is moved in the pass after the last pass that moves an
\* extension it embeds a type of.  Otherwise: in the same pass as that
\* extension when that extension stands before it in the document.
PassOf(k, depth, movedTogether) ==
  IF depth = 0
    THEN NoPass
    ELSE IF EmbeddedBy(k) = {}
           THEN 1
           ELSE SetMax({ LET pass == PassOf(j, depth - 1, movedTogether)
                         IN  IF pass = NoPass
                               THEN NoPass
                               ELSE IF j < k /\ ~movedTogether
                                      THEN pass
                                      ELSE pass + 1 :
                         j \in EmbeddedBy(k) })

\* The place in the document of the extension called n (distinct names).
PlaceOf(n) == CHOOSE k \in 1..Len(Document) : Document[k].name = n

\* The order returned holds once every extension that some pass moves, by
\* pass and, within a pass, in the order of the document.
OrderedByPass(movedTogether) ==
  LET pass(n) == PassOf(PlaceOf(n), Len(Document) + 1, movedTogether)
  IN  /\ \A n \in DocumentNames :
           pass(n) # NoPass =>
             Cardinality(PositionsIn(loadOrderExtensionNames, n)) = 1
      /\ \A p, q \in 1..Len(loadOrderExtensionNames) :
           p < q =>
             LET a == loadOrderExtensionNames[p]
                 b == loadOrderExtensionNames[q]
             IN  \/ pass(a) < pass(b)
                 \/ pass(a) = pass(b) /\ PlaceOf(a) < PlaceOf(b)

\* C25 (as claimed): the resolver is breadth-first by pass: the extensions
\* eligible against the remaining set of a pass are moved together, and an
\* extension that becomes eligible because another one is moved in the pass
\* is output after every extension already eligible in that pass.
C25_BreadthFirstByPass ==
  (OrderReturned /\ DistinctNames) => OrderedByPass(TRUE)

\* C25 (amended): eligibility is decided against the remaining list as it
\* is when the extension is scanned, the extensions moved earlier in the
\* same pass being already out of it: an extension is moved in the pass
\* that moves the last of the extensions it embeds a type of when these
\* stand before it in the document, in the next pass otherwise.
C25_EligibleWhenScanned ==
  (OrderReturned /\ DistinctNames) => OrderedByPass(FALSE)

\* C25 witness: the document [B, A, C], A embedding B::Bar and C embedding
\* nothing of the document, yields [B, A, C].
C25_Witness ==
  /\ OrderReturned
  /\ ElementNames(Document) = <<"B", "A", "C">>
  /\ Embeds("A", "B")
  /\ EmbeddedBy(1) = {}
  /\ EmbeddedBy(3) = {}
  /\ loadOrderExtensionNames = <<"B", "A", "C">>

\* The resolver is running: its while loop or the for loop of a pass.
InResolver == pc \in {"while", "for"}

\* C26 (checked under SpecResolver): for every list of fragments,
\* cyclic ones and ones with repeated names included, the loop of the
\* resolver terminates; it is left at the while test that follows a pass
\* that has moved no extension and at no other one, and the resolver logs no
\* error and does not crash.
C26_ResolverTerminates ==
  /\ InResolver ~> OrderReturned
  /\ [][(pc = "while") =>
          IF foundAnyExtension THEN pc' = "for" ELSE pc' = "implement"]_vars
  /\ [][InResolver => (errors' = errors /\ pc' # "crashed")]_vars

\* C26 witness: the resolver has returned on a document with a repeated
\* name and two extensions embedding a type of each other, which it has
\* left in the remaining names.
C26_Witness ==
  /\ OrderReturned
  /\ ~DistinctNames
  /\ Embeds("A", "B")
  /\ Embeds("B", "A")
  /\ ~foundAnyExtension
  /\ remainingExtensionNames # <<>>

\* Every fragment called n embeds only types of n itself, built-in types
\* and types of extensions that are not among the fragments of the document.
EmbedsNothingOfDocument(n) ==
  \A k \in 1..Len(Document) :
    Document[k].name = n =>
      \A o \in 1..Len(Document[k].eventsBasedObjects) :
        \A c \in 1..Len(Document[k].eventsBasedObjects[o].objects) :
          LET used == GetExtensionFromFullObjectType(
                        Document[k].eventsBasedObjects[o].objects[c])
          IN  used = n \/ used \notin DocumentNames

\* The first pass of the resolver is over: the while test is reached again
\* (on entry the flag is set and nothing is moved yet), or the resolver has
\* returned.
FirstPassDone ==
  \/ pc = "while" /\ ~(foundAnyExtension /\ loadOrderExtensionNames = <<>>)
  \/ OrderReturned

\* C27: an extension whose custom objects embed only types of itself or of
\* extensions that are not among the fragments of the document is moved to
\* the output during the first pass: once that pass is over it is in the
\* output and no longer in the remaining names.
C27_UnblockedMovedInFirstPass ==
  FirstPassDone =>
    \A n \in DocumentNames :
      EmbedsNothingOfDocument(n) =>
        /\ n \notin Range(remainingExtensionNames)
        /\ n \in Range(loadOrderExtensionNames)

\* C27 witness: the first pass on the document [A, B], where A embeds
\* A::Bar and B embeds C::Bar, C being no fragment of the document, is over
\* and has moved both.
C27_Witness ==
  /\ pc = "while"
  /\ foundAnyExtension
  /\ orderIndex = 1
  /\ Len(Document) = 2
  /\ Document[1].name = "A"
  /\ Document[1].eventsBasedObjects # <<>>
  /\ Document[1].eventsBasedObjects[1].objects = << GetObjectFullType("A", "Bar") >>
  /\ Document[2].name = "B"
  /\ Document[2].eventsBasedObjects # <<>>
  /\ Document[2].eventsBasedObjects[1].objects = << GetObjectFullType("C", "Bar") >>
  /\ loadOrderExtensionNames = <<"A", "B">>
  /\ remainingExtensionNames = <<>>

\* The declaration steps made so far.
Declarations == { p \in 1..Len(log) : log[p].kind = "declare" }

\* Phase 1 is over.
PhaseOneDone == pc # "declare"

\* The custom object types that the document declares: for each extension
\* name, those of the fragment that stands for it (the last one of that
\* name, a later declaration of an extension replacing an earlier one).
TypesDeclaredByDocument ==
  UNION { { GetObjectFullType(n, LastElementNamed(n).eventsBasedObjects[o].name) :
              o \in 1..Len(LastElementNamed(n).eventsBasedObjects) } :
          n \in DocumentNames }

\* C28: the declaration steps are made first, one for each fragment in the
\* order of the document, and no implementation step precedes a
\* declaration step; when phase 1 is over, and so before any
\* implementation is read, every fragment has been declared and every
\* custom object type declared by the document exists in the project.
C28_DeclarationsBeforeImplementations ==
  /\ \A p \in Declarations :
       /\ log[p].index = p
       /\ log[p].name = Document[p].name
  /\ \A p \in 1..Len(log) :
       log[p].kind # "declare" =>
         /\ PhaseOneDone
         /\ \A q \in Declarations : q < p
  /\ PhaseOneDone =>
       /\ Declarations = 1..Len(Document)
       /\ \A t \in TypesDeclaredByDocument :
            EventsBasedObjectExists(eventsFunctionsExtensions, t)

\* C28 witness: the three fragments C, A, B were declared in that order,
\* then B was implemented, then A whose custom object embeds B::Bar.
C28_Witness ==
  /\ ElementNames(Document) = <<"C", "A", "B">>
  /\ Embeds("A", "B")
  /\ GetObjectFullType("A", "Foo") \in TypesDeclaredByDocument
  /\ Len(log) >= 5
  /\ log[1].kind = "declare" /\ log[1].name = "C"
  /\ log[2].kind = "declare" /\ log[2].name = "A"
  /\ log[3].kind = "declare" /\ log[3].name = "B"
  /\ log[4].kind = "implement"
  /\ \E p \in 5..Len(log) : log[p].kind = "implement" /\ log[p].name = "A"

\* Both lookups of phase 2 succeed for every name of the resolver's order:
\* the name is a fragment's name, so phase 1 recorded its index and left an
\* extension of that name in the project. Neither error is ever logged.
PhaseTwoLookupsSucceed ==
  /\ errors = <<>>
  /\ pc = "implement" =>
       \A k \in 1..Len(loadOrderExtensionNames) :
         /\ GetEventsFunctionsExtensionPosition(loadOrderExtensionNames[k]) # npos
         /\ loadOrderExtensionNames[k] \in DOMAIN extensionNameToElementIndex

\* The keys of the side table that were looked up by the restorations made
\* so far.
RestoredKeys ==
  UNION { log[p].types : p \in { q \in 1..Len(log) : log[q].kind = "restore" } }

\* C36 (as claimed): whenever phase 2 re-applies a variant snapshot, the key
\* of the side table resolves to an extension of the project and to a custom
\* object of that extension: GetEventsBasedObject is never called for a
\* type that is absent after phase 1, also when the project already held an
\* extension whose new fragment no longer declares one of its custom
\* objects.
C36_RestoredKeysResolve ==
  /\ pc # "crashed"
  /\ \A t \in RestoredKeys :
       EventsBasedObjectExists(eventsFunctionsExtensions, t)

\* The keys resolve when the fragments declare again every custom object
\* that their extensions held in the project.
RestoredKeysResolveWhenDeclaredAgain ==
  (\A t \in DOMAIN objectTypeToVariantsElement :
     t \in TypesDeclaredByDocument) =>
    C36_RestoredKeysResolve

(* ====================================================================== *)
(* Properties of UnserializeFrom (checked under SpecLoad)                 *)
(* ====================================================================== *)

\* The version the document states, the absent attributes having the
\* defaults a new project gives them.
DocumentVersion ==
  << IF document.gdVersion.major = <<>>
       THEN toolVersion[1] ELSE document.gdVersion.major[1],
     IF document.gdVersion.minor = <<>>
       THEN toolVersion[2] ELSE document.gdVersion.minor[1],
     IF document.gdVersion.build = <<>> THEN 0 ELSE document.gdVersion.build[1],
     IF document.gdVersion.revision = <<>>
       THEN 0 ELSE document.gdVersion.revision[1] >>

\* Lexicographic order of tuples of the same length.
LexLess(a, b) ==
  \E k \in 1..Len(a) : a[k] < b[k] /\ \A j \in 1..(k - 1) : a[j] = b[j]

LexLessOrEqual(a, b) == a = b \/ LexLess(a, b)

DocumentTriple == SubSeq(DocumentVersion, 1, 3)

VersionRead == pc # "gdVersion"

PropertiesRead == pc \notin {"gdVersion", "properties"}

PlatformsRead == pc \notin {"gdVersion", "properties", "platforms"}

NamesOf(collection) == [k \in 1..Len(collection) |-> collection[k].name]

\* C6: the version warning is logged exactly when the document's 4-tuple is
\* lexicographically greater than the tool's, and in either case the load
\* goes on to its end, having read the properties, the extensions, the
\* scenes, the external events and the external layouts of the document.
C6_WarningAndLoadProceeds ==
  /\ VersionRead =>
       /\ Len(warnings) <= 1
       /\ (Len(warnings) = 1) <=> LexLess(toolVersion, DocumentVersion)
  /\ pc # "done" => ENABLED NextLoad
  /\ pc = "done" =>
       /\ projectName = document.name
       /\ NamesOf(eventsFunctionsExtensions)
            = NamesOf(document.eventsFunctionsExtensions)
       /\ NamesOf(scenes) = document.layouts
       /\ NamesOf(externalEvents) = document.externalEvents
       /\ NamesOf(externalLayouts) = document.externalLayouts

\* C6 witness: a document newer than the tool by its revision only has been
\* loaded to the end, with the warning.
C6_Witness ==
  /\ pc = "done"
  /\ SubSeq(DocumentVersion, 1, 3) = SubSeq(toolVersion, 1, 3)
  /\ DocumentVersion[4] > toolVersion[4]
  /\ warnings = <<"greater version">>
  /\ NamesOf(scenes) = <<"Scene", "Menu">>

\* C7: useDeprecatedZeroAsDefaultZOrder is the explicit value of the
\* attribute when the document has it, at every version; without the
\* attribute it is true for a version <= 4.0.98 and false for a later one.
C7_ZeroAsDefaultZOrderRule ==
  PropertiesRead =>
    useDeprecatedZeroAsDefaultZOrder =
      IF document.useDeprecatedZeroAsDefaultZOrder # <<>>
        THEN document.useDeprecatedZeroAsDefaultZOrder[1]
        ELSE LexLessOrEqual(DocumentTriple, <<4, 0, 98>>)

\* C7 witness: version 4.0.98 with the attribute explicitly false.
C7_Witness ==
  /\ PropertiesRead
  /\ DocumentTriple = <<4, 0, 98>>
  /\ document.useDeprecatedZeroAsDefaultZOrder = <<FALSE>>
  /\ ~useDeprecatedZeroAsDefaultZOrder

\* The platform names of today for the two historical ones.
LegacyRename(n) ==
  CASE n = "Game Develop C++ platform" -> "GDevelop C++ platform"
    [] n = "Game Develop JS platform" -> "GDevelop JS platform"
    [] OTHER -> n

\* C8: for a document of version <= 3.4.73 the legacy platform names are
\* rewritten, in the entries of the platforms list and in currentPlatform;
\* a rewritten entry that the platform manager knows is in the project.
C8_LegacyPlatformsRenamed ==
  (PlatformsRead /\ LexLessOrEqual(DocumentTriple, <<3, 4, 73>>)) =>
    /\ loadedPlatformNames =
         [k \in 1..Len(document.platforms) |-> LegacyRename(document.platforms[k])]
    /\ currentPlatformName = LegacyRename(document.currentPlatform)
    /\ \A k \in 1..Len(document.platforms) :
         LegacyRename(document.platforms[k]) \in platformManager =>
           LegacyRename(document.platforms[k]) \in Range(platforms)

\* C8 witness: version 3.4.73, "Game Develop JS platform" listed and current.
C8_Witness ==
  /\ PlatformsRead
  /\ DocumentTriple = <<3, 4, 73>>
  /\ document.platforms = <<"Game Develop JS platform">>
  /\ document.currentPlatform = "Game Develop JS platform"
  /\ platforms = <<"GDevelop JS platform">>
  /\ currentPlatform = "GDevelop JS platform"

\* C9 (as claimed): for a document of version > 3.4.73 the platform names of
\* the list and currentPlatform are taken verbatim.
C9_NewerPlatformsVerbatim ==
  (PlatformsRead /\ LexLess(<<3, 4, 73>>, DocumentTriple)) =>
    /\ loadedPlatformNames = document.platforms
    /\ currentPlatformName = document.currentPlatform

(* ====================================================================== *)
(* Properties of the collections (checked under SpecCollections)          *)
(* ====================================================================== *)

\* What GetByName(n) returns when called right after the InsertNew of
\* lastCall, on its collection.
InsertedLayoutIsFound ==
  lastCall.op = "InsertNewLayout" =>
    GetLayout(lastCall.name).id = lastCall.returned

InsertedEventsFunctionsExtensionIsFound ==
  lastCall.op = "InsertNewEventsFunctionsExtension" =>
    GetEventsFunctionsExtension(lastCall.name).id = lastCall.returned

\* The 0-based index at which the InsertNew of lastCall put its entity in
\* the collection.
InsertionIndex(collection) ==
  IF lastCall.first < Len(collection) - 1
    THEN lastCall.first ELSE Len(collection) - 1

\* No entity stored below the inserted one has its name.
NoHomonymBelow(collection) ==
  \A k \in 1..InsertionIndex(collection) : collection[k].name # lastCall.name

\* C10 (as claimed): in every collection state, right after InsertNew(n, p)
\* the lookup GetByName(n) returns the entity that InsertNew inserted.
C10_InsertedIsFound ==
  InsertedLayoutIsFound /\ InsertedEventsFunctionsExtensionIsFound

\* C10 (amended): right after InsertNew(n, p), GetByName(n) returns the
\* inserted entity whenever no entity named n is stored at an index below
\* the one the new entity was inserted at, and an older entity otherwise.
C10_InsertedIsFoundUnlessHomonymBelow ==
  /\ lastCall.op = "InsertNewLayout" =>
       (GetLayout(lastCall.name).id = lastCall.returned)
         <=> NoHomonymBelow(scenes)
  /\ lastCall.op = "InsertNewEventsFunctionsExtension" =>
       (GetEventsFunctionsExtension(lastCall.name).id = lastCall.returned)
         <=> NoHomonymBelow(eventsFunctionsExtensions)

\* C10 witness: a scene inserted in the middle of two others, one of them
\* a homonym stored after it, is the one the lookup returns.
C10_Witness ==
  /\ lastCall.op = "InsertNewLayout"
  /\ lastCall.first = 1
  /\ Len(scenes) = 3
  /\ scenes[1].name # lastCall.name
  /\ scenes[3].name = lastCall.name
  /\ scenes[2].id = lastCall.returned
  /\ GetLayout(lastCall.name) = scenes[2]

\* The places of a collection holding an entity named name.
PlacesNamed(collection, name) ==
  { k \in 1..Len(collection) : collection[k].name = name }

RemovedLayout == lastCall.op = "RemoveLayout"

RemovedEventsFunctionsExtension ==
  lastCall.op = "RemoveEventsFunctionsExtension"

\* C11 (as claimed): in every collection state, right after Remove(n) the
\* query HasNamed(n) is false.
C11_RemovedIsNotFound ==
  /\ RemovedLayout => ~HasLayoutNamed(lastCall.name)
  /\ RemovedEventsFunctionsExtension =>
       ~HasEventsFunctionsExtensionNamed(lastCall.name)

\* C11 (amended): right after Remove(n), HasNamed(n) is false exactly when
\* the collection held at most one entity named n when Remove was called;
\* with two or more, one homonym is removed and HasNamed(n) stays true.
C11_RemovedIsNotFoundUnlessHomonym ==
  /\ RemovedLayout =>
       (~HasLayoutNamed(lastCall.name)
          <=> Cardinality(PlacesNamed(lastCall.before, lastCall.name)) <= 1)
  /\ RemovedEventsFunctionsExtension =>
       (~HasEventsFunctionsExtensionNamed(lastCall.name)
          <=> Cardinality(PlacesNamed(lastCall.before, lastCall.name)) <= 1)

\* C11 witness: the only scene of its name, stored between two others, has
\* been removed and is not found.
C11_Witness ==
  /\ RemovedLayout
  /\ Len(lastCall.before) = 3
  /\ PlacesNamed(lastCall.before, lastCall.name) = {2}
  /\ Len(scenes) = 2
  /\ ~HasLayoutNamed(lastCall.name)

InsertedLayout == lastCall.op = "InsertNewLayout"

InsertedEventsFunctionsExtension ==
  lastCall.op = "InsertNewEventsFunctionsExtension"

\* The 0-based index InsertNew(name, position) is to use in a collection
\* that held count entities: position when position < count, else the end.
InsertionPlace(position, count) == IF position < count THEN position ELSE count

\* What InsertNew(lastCall.name, lastCall.first) made of lastCall.before.
InsertedInto(collection) ==
  LET before == lastCall.before
      place == InsertionPlace(lastCall.first, Len(before))
  IN  /\ Len(collection) = Len(before) + 1
      /\ collection[place + 1].id = lastCall.returned
      /\ collection[place + 1].name = lastCall.name
      /\ \A k \in 1..Len(before) :
           collection[IF k <= place THEN k ELSE k + 1] = before[k]

\* C12: InsertNew(name, position) increases the count by one, puts the new
\* entity at index position when position < Count() before the call and at
\* the end otherwise (the loader's -1 included), gives it the requested
\* name and keeps the order of the entities stored before.
C12_InsertNewPlacesEntity ==
  /\ InsertedLayout => InsertedInto(scenes)
  /\ InsertedEventsFunctionsExtension => InsertedInto(eventsFunctionsExtensions)

\* C12 witness: a scene inserted at index 1 of two scenes stands between
\* them.
C12_Witness ==
  /\ InsertedLayout
  /\ lastCall.first = 1
  /\ Len(lastCall.before) = 2
  /\ scenes[1] = lastCall.before[1]
  /\ scenes[2].id = lastCall.returned
  /\ scenes[3] = lastCall.before[2]

\* What Remove(lastCall.name) made of lastCall.before.
RemovedFrom(collection) ==
  LET before == lastCall.before
      places == PlacesNamed(before, lastCall.name)
  IN  IF places = {}
        THEN collection = before
        ELSE LET lowest == CHOOSE k \in places : \A j \in places : k <= j
             IN  /\ Len(collection) = Len(before) - 1
                 /\ \A k \in 1..Len(collection) :
                      collection[k] = before[IF k < lowest THEN k ELSE k + 1]

\* C13: Remove(name) changes nothing when no entity has the name; otherwise
\* it removes the entity at the lowest index having the name and no other,
\* the count decreasing by one and the other entities keeping their order.
C13_RemoveErasesFirstMatch ==
  /\ RemovedLayout => RemovedFrom(scenes)
  /\ RemovedEventsFunctionsExtension => RemovedFrom(eventsFunctionsExtensions)

\* C13 witness: of two scenes of the same name stored after another one,
\* the first has been removed and the second stays.
C13_Witness ==
  /\ RemovedLayout
  /\ Len(lastCall.before) = 3
  /\ PlacesNamed(lastCall.before, lastCall.name) = {2, 3}
  /\ scenes = <<lastCall.before[1], lastCall.before[3]>>

MovedLayout == lastCall.op = "MoveLayout"

MovedEventsFunctionsExtension == lastCall.op = "MoveEventsFunctionsExtension"

\* What Move(lastCall.first, lastCall.second) made of lastCall.before.
MovedWithin(collection) ==
  LET before == lastCall.before
      oldIndex == lastCall.first
      newIndex == lastCall.second
  IN  IF oldIndex >= Len(before) \/ newIndex >= Len(before)
        THEN collection = before
        ELSE /\ Len(collection) = Len(before)
             /\ collection[newIndex + 1] = before[oldIndex + 1]
             /\ \A k \in 1..(Len(before) - 1) :
                  collection[IF k <= newIndex THEN k ELSE k + 1]
                    = before[IF k <= oldIndex THEN k ELSE k + 1]
             /\ oldIndex = newIndex => collection = before

\* C14: Move(oldIndex, newIndex) with both indices in range puts the moved
\* entity at index newIndex, keeping the count and the order of the other
\* entities; Move(i, i) changes nothing; with an index out of range the
\* collection is unchanged.
C14_MovePlacesEntity ==
  /\ MovedLayout => MovedWithin(scenes)
  /\ MovedEventsFunctionsExtension => MovedWithin(eventsFunctionsExtensions)

\* C14 witness: the first of three scenes has been moved to the last index.
C14_Witness ==
  /\ MovedLayout
  /\ lastCall.first = 0
  /\ lastCall.second = 2
  /\ Len(lastCall.before) = 3
  /\ scenes = <<lastCall.before[2], lastCall.before[3], lastCall.before[1]>>

SwappedLayouts == lastCall.op = "SwapLayouts"

SwappedEventsFunctionsExtensions ==
  lastCall.op = "SwapEventsFunctionsExtensions"

\* What Swap(lastCall.first, lastCall.second) made of lastCall.before.
SwappedWithin(collection) ==
  LET before == lastCall.before
      first == lastCall.first
      second == lastCall.second
  IN  IF first >= Len(before) \/ second >= Len(before)
        THEN collection = before
        ELSE /\ Len(collection) = Len(before)
             /\ collection[first + 1] = before[second + 1]
             /\ collection[second + 1] = before[first + 1]
             /\ \A k \in 1..Len(before) :
                  k \notin {first + 1, second + 1} => collection[k] = before[k]

\* A step that calls Swap with the indices of the Swap called just before,
\* on the same collection.
SwappedAgain ==
  /\ lastCall.op \in {"SwapLayouts", "SwapEventsFunctionsExtensions"}
  /\ lastCall'.op = lastCall.op
  /\ lastCall'.first = lastCall.first
  /\ lastCall'.second = lastCall.second

\* The second of two such Swap calls gives back the order the collection
\* had before the first.
SwappedBack ==
  /\ lastCall.op = "SwapLayouts" => scenes' = lastCall.before
  /\ lastCall.op = "SwapEventsFunctionsExtensions" =>
       eventsFunctionsExtensions' = lastCall.before

\* C15: Swap(i, j) with both indices in range exchanges the entities at i
\* and j and leaves every other index as it was, so that Swap(i, j) called
\* twice restores the order; with an index out of range the collection is
\* unchanged.
C15_SwapExchanges ==
  /\ [](/\ SwappedLayouts => SwappedWithin(scenes)
        /\ SwappedEventsFunctionsExtensions =>
             SwappedWithin(eventsFunctionsExtensions))
  /\ [][SwappedAgain => SwappedBack]_vars

\* C15 witness: the first and last of three scenes have been exchanged.
C15_Witness ==
  /\ SwappedLayouts
  /\ lastCall.first = 0
  /\ lastCall.second = 2
  /\ Len(lastCall.before) = 3
  /\ lastCall.before[1] # lastCall.before[3]
  /\ scenes = <<lastCall.before[3], lastCall.before[2], lastCall.before[1]>>

\* The names looked up: those given to entities and one given to none.
LookedUpNames == EntityNames \cup {""}

\* The lowest 1-based place of a collection holding the name, 0 when none.
LowestPlaceNamed(collection, name) ==
  IF PlacesNamed(collection, name) = {}
    THEN 0
    ELSE CHOOSE k \in PlacesNamed(collection, name) :
           \A j \in PlacesNamed(collection, name) : k <= j

\* C16: in every reachable collection state, duplicate names included,
\* HasNamed(name) is true exactly when PositionOf(name) is not npos, and
\* then GetByName(name) is the entity stored at PositionOf(name), which is
\* the lowest index holding the name.
C16_LookupsAgree ==
  \A name \in LookedUpNames :
    /\ HasLayoutNamed(name) <=> GetLayoutPosition(name) # npos
    /\ GetLayoutPosition(name) = LowestPlaceNamed(scenes, name)
    /\ HasLayoutNamed(name) =>
         GetLayout(name) = scenes[GetLayoutPosition(name)]
    /\ HasEventsFunctionsExtensionNamed(name)
         <=> GetEventsFunctionsExtensionPosition(name) # npos
    /\ GetEventsFunctionsExtensionPosition(name)
         = LowestPlaceNamed(eventsFunctionsExtensions, name)
    /\ HasEventsFunctionsExtensionNamed(name) =>
         GetEventsFunctionsExtension(name)
           = eventsFunctionsExtensions[GetEventsFunctionsExtensionPosition(name)]

\* C16 witness: two scenes of the same name stored after a third one; the
\* lookups give the first of the two.
C16_Witness ==
  /\ Len(scenes) = 3
  /\ scenes[1].name = "Menu"
  /\ scenes[2].name = "Scene"
  /\ scenes[3].name = "Scene"
  /\ GetLayoutPosition("Scene") = 2
  /\ GetLayout("Scene") = scenes[2]
  /\ ~HasLayoutNamed("")

(* ====================================================================== *)
(* Properties of the copy of a project (checked under SpecCopy)           *)
(* ====================================================================== *)

EntityIds(collection) == { collection[k].id : k \in 1..Len(collection) }

\* No entity is held by a collection of this project and by the collection
\* of the same kind of the copied project.
NoSharedEntity ==
  /\ EntityIds(scenes) \cap EntityIds(game.scenes) = {}
  /\ EntityIds(externalEvents) \cap EntityIds(game.externalEvents) = {}
  /\ EntityIds(externalLayouts) \cap EntityIds(game.externalLayouts) = {}
  /\ EntityIds(eventsFunctionsExtensions)
       \cap EntityIds(game.eventsFunctionsExtensions) = {}

\* The entities of a collection, their identities left out.
Contents(collection) ==
  [k \in 1..Len(collection) |-> [collection[k] EXCEPT !.id = 0]]

\* Right after Init the collections hold, in the same order, entities with
\* the contents of those of the copied project.
CopiedInOrder ==
  lastCall.op = "Init" =>
    /\ Contents(scenes) = Contents(game.scenes)
    /\ Contents(externalEvents) = Contents(game.externalEvents)
    /\ Contents(externalLayouts) = Contents(game.externalLayouts)
    /\ Contents(eventsFunctionsExtensions)
         = Contents(game.eventsFunctionsExtensions)

\* A step that inserts, removes, moves, swaps or renames in this project
\* leaves the copied project as it was.
EditKeepsGame ==
  lastCall'.op \in {"InsertNewLayout", "RemoveLayout", "MoveLayout",
                    "SwapLayouts", "SetName"}
    => game' = game

\* A step that renames in the copied project leaves this project's
\* collections as they were.
GameEditKeepsCopy ==
  lastCall'.op = "game.SetName" =>
    /\ scenes' = scenes
    /\ externalEvents' = externalEvents
    /\ externalLayouts' = externalLayouts
    /\ eventsFunctionsExtensions' = eventsFunctionsExtensions

\* C17: copying a project deep-clones every scene, external events sheet,
\* external layout and extension: the copy has the same entities in the
\* same order as the source at the time of the copy, shares none with it,
\* and an insertion, removal, move, swap or renaming in one of the two
\* projects leaves the collections of the other unchanged.
C17_CopyIsDeep ==
  /\ [](NoSharedEntity /\ CopiedInOrder)
  /\ [][EditKeepsGame /\ GameEditKeepsCopy]_vars

\* C17 witness: after the copy of two scenes the first scene of the copy
\* has been renamed; the copied project still has its name.
C17_Witness ==
  /\ lastCall.op = "SetName"
  /\ lastCall.first = 0
  /\ Len(scenes) = 2
  /\ Len(game.scenes) = 2
  /\ scenes[1].name = "Menu"
  /\ game.scenes[1].name = "Scene"
  /\ game \in Games

(* ====================================================================== *)
(* Properties of EnsureObjectDefaultBehaviors (checked under              *)
(* SpecBehaviors)                                                         *)
(* ====================================================================== *)

\* EnsureObjectDefaultBehaviors has just returned.
Ensured == lastCall.op = "EnsureObjectDefaultBehaviors"

\* The type of the object resolves in the registry.
TypeResolves == ~GetObjectMetadata(ensuredObject.type).bad

\* The behavior types declared default by the type of the object that have
\* behavior metadata.
DeclaredDefaults ==
  { t \in GetObjectMetadata(ensuredObject.type).defaultBehaviors :
      GetBehaviorMetadata(t) # BadMetadata }

\* What the call made of the behavior under the default name of the declared
\* default type t: a default behavior of type t, the former one if it was
\* one already, a fresh one if it was of another type or not default.
DefaultEnsured(t) ==
  LET n == GetBehaviorMetadata(t)
      now == ensuredObject.behaviors
      before == lastCall.before
  IN  /\ n \in DOMAIN now
      /\ now[n].type = t
      /\ now[n].isDefault
      /\ n \in DOMAIN before =>
           IF before[n].type = t /\ before[n].isDefault
             THEN now[n] = before[n]
             ELSE now[n].content = "fresh"

\* C18 (as claimed): after EnsureObjectDefaultBehaviors on an object whose
\* type resolves, for every behavior type declared default with behavior
\* metadata the object holds under the type's default name a default
\* behavior of that type, a former one of that name, type and flag being
\* kept and one of another type or without the flag being replaced.
C18_DefaultsEnsured ==
  (Ensured /\ TypeResolves) => \A t \in DeclaredDefaults : DefaultEnsured(t)

\* The default name of t is the default name of no other declared default
\* type.
OwnDefaultName(t) ==
  \A u \in DeclaredDefaults :
    GetBehaviorMetadata(u) = GetBehaviorMetadata(t) => u = t

\* C18 (amended): the same for every declared default type whose default
\* name is not the default name of another declared default type; of the
\* declared default types sharing a default name, the object holds under
\* that name a fresh default behavior of the last one in iteration order.
C18_DefaultsEnsuredForOwnNames ==
  (Ensured /\ TypeResolves) =>
    \A t \in DeclaredDefaults :
      IF OwnDefaultName(t)
        THEN DefaultEnsured(t)
        ELSE LET n == GetBehaviorMetadata(t)
                 last == CHOOSE k \in 1..Len(BehaviorTypes) :
                           /\ BehaviorTypes[k] \in DeclaredDefaults
                           /\ GetBehaviorMetadata(BehaviorTypes[k]) = n
                           /\ \A j \in (k + 1)..Len(BehaviorTypes) :
                                BehaviorTypes[j] \in DeclaredDefaults =>
                                  GetBehaviorMetadata(BehaviorTypes[j]) # n
             IN  ensuredObject.behaviors[n] =
                   [type |-> BehaviorTypes[last], isDefault |-> TRUE,
                    content |-> "fresh"]

\* C18 witness: two declared default types with their own names; the
\* object had the behavior of the first, which is kept, and under the name
\* of the second a user's behavior, which is replaced.
C18_Witness ==
  /\ Ensured
  /\ DeclaredDefaults = {"Flippable", "Resizable"}
  /\ GetBehaviorMetadata("Flippable") = "Flippable"
  /\ GetBehaviorMetadata("Resizable") = "Resizable"
  /\ DOMAIN lastCall.before = {"Flippable", "Resizable"}
  /\ lastCall.before["Flippable"] =
       [type |-> "Flippable", isDefault |-> TRUE, content |-> "configured"]
  /\ ~lastCall.before["Resizable"].isDefault
  /\ ensuredObject.behaviors["Flippable"] = lastCall.before["Flippable"]
  /\ ensuredObject.behaviors["Resizable"] =
       [type |-> "Resizable", isDefault |-> TRUE, content |-> "fresh"]

\* C19: after EnsureObjectDefaultBehaviors on an object whose type resolves
\* in the registry, no behavior flagged default is left whose type is not
\* in the declared-default set of the object's type.
C19_NoStaleDefault ==
  (Ensured /\ TypeResolves) =>
    \A n \in DOMAIN ensuredObject.behaviors :
      ensuredObject.behaviors[n].isDefault =>
        ensuredObject.behaviors[n].type
          \in GetObjectMetadata(ensuredObject.type).defaultBehaviors

\* C19 witness: the object had under "Custom" a default behavior of a type
\* that is not declared default, next to a declared one; it is removed.
C19_Witness ==
  /\ Ensured
  /\ TypeResolves
  /\ GetObjectMetadata(ensuredObject.type).defaultBehaviors = {"Flippable"}
  /\ GetBehaviorMetadata("Flippable") = "Flippable"
  /\ DOMAIN lastCall.before = {"Custom", "Flippable"}
  /\ lastCall.before["Custom"] =
       [type |-> "Effect", isDefault |-> TRUE, content |-> "configured"]
  /\ DOMAIN ensuredObject.behaviors = {"Flippable"}

\* The behaviors of a map that are not flagged default, with their names.
NonDefaultBehaviors(behaviors) ==
  { <<n, behaviors[n]>> : n \in { m \in DOMAIN behaviors : ~behaviors[m].isDefault } }

DeclaredDefaultNames ==
  IF TypeResolves
    THEN { GetBehaviorMetadata(t) : t \in DeclaredDefaults }
    ELSE {}

BehaviorSet(behaviors) ==
  { <<n, behaviors[n].type, behaviors[n].isDefault>> : n \in DOMAIN behaviors }

\* A call of EnsureObjectDefaultBehaviors that directly follows another one
\* on the same object with the same registry.
EnsuredAgain ==
  /\ Ensured
  /\ lastCall'.op = "EnsureObjectDefaultBehaviors"
  /\ ensuredObject'.type = ensuredObject.type
  /\ metadataProvider' = metadataProvider

\* C21: EnsureObjectDefaultBehaviors is idempotent: a second call in a row,
\* the registry and the type of the object being the same, leaves the set of
\* behaviors (name, type, default flag) that the first call left.
C21_EnsureIsIdempotent ==
  [][EnsuredAgain =>
       BehaviorSet(ensuredObject'.behaviors)
         = BehaviorSet(ensuredObject.behaviors)]_vars

\* C21 witness: two calls have been made (each has logged the one declared
\* default type without metadata), the first of which has created the default
\* behavior of the other declared type, and the second has changed nothing.
C21_Witness ==
  /\ Ensured
  /\ TypeResolves
  /\ GetObjectMetadata(ensuredObject.type).defaultBehaviors
       = {"Effect", "Flippable"}
  /\ GetBehaviorMetadata("Effect") = BadMetadata
  /\ GetBehaviorMetadata("Flippable") = "Flippable"
  /\ warnings = <<"Effect", "Effect">>
  /\ DOMAIN ensuredObject.behaviors = {"Custom", "Flippable"}
  /\ ensuredObject.behaviors["Flippable"] =
       [type |-> "Flippable", isDefault |-> TRUE, content |-> "fresh"]
  /\ lastCall.before = ensuredObject.behaviors

\* A call of EnsureObjectDefaultBehaviors on an object whose type does not
\* resolve in the registry.
EnsuredUnresolvable ==
  /\ lastCall'.op = "EnsureObjectDefaultBehaviors"
  /\ ~TypeResolves

\* The type of the object is a custom object type declared by one of the
\* extensions of the project.
IsCustomObjectType ==
  \E e \in 1..Len(eventsFunctionsExtensions) :
    \E o \in 1..Len(eventsFunctionsExtensions[e].eventsBasedObjects) :
      ensuredObject.type =
        GetObjectFullType(eventsFunctionsExtensions[e].name,
                          eventsFunctionsExtensions[e].eventsBasedObjects[o].name)

\* C30: when the type of the object does not resolve in the registry,
\* EnsureObjectDefaultBehaviors leaves the object and its behaviors as they
\* were (nothing added, nothing removed, nothing replaced); it logs nothing
\* when the type is a custom object type declared by an extension of the
\* project, and exactly one warning, about the unknown type, otherwise.
C30_UnresolvableTypeLeftAlone ==
  [][EnsuredUnresolvable =>
       /\ ensuredObject' = ensuredObject
       /\ IsCustomObjectType => warnings' = warnings
       /\ ~IsCustomObjectType => warnings' = Append(warnings, "unknown type")]_vars

\* C30 witness: the function was called on an object of the custom object
\* type A::Foo, declared by the project's extension A and absent from the
\* registry; the object keeps its default behavior and its other behavior,
\* no default behavior was added and nothing was logged.
C30_Witness ==
  /\ Ensured
  /\ ~TypeResolves
  /\ ensuredObject.type = GetObjectFullType("A", "Foo")
  /\ IsCustomObjectType
  /\ DOMAIN ensuredObject.behaviors = {"Custom", "Flippable"}
  /\ ensuredObject.behaviors["Flippable"].isDefault
  /\ ~ensuredObject.behaviors["Custom"].isDefault
  /\ ensuredObject.behaviors = lastCall.before
  /\ warnings = <<>>

\* The other case: the type is unknown to the registry and to the project,
\* and each of the two calls has logged one warning and changed nothing.
UnknownTypeWarned ==
  /\ Ensured
  /\ ~TypeResolves
  /\ ~IsCustomObjectType
  /\ ensuredObject.behaviors = lastCall.before
  /\ DOMAIN ensuredObject.behaviors = {"Flippable"}
  /\ warnings = <<"unknown type", "unknown type">>

(* ====================================================================== *)
(* Further properties of UnserializeFrom (checked under SpecLoad)         *)
(* ====================================================================== *)

\* The platform names of the document, as written and as looked up after
\* the compatibility renames, that the platform manager does not know.
UnknownPlatformNames ==
  { n \in Range(document.platforms) \cup Range(loadedPlatformNames) :
      n \notin platformManager }

\* C23: a platform name of the document that the platform manager does not
\* know is never in the platforms of the project and is never its current
\* platform; the step that reads the platforms always completes, and the
\* load ends with the extensions, the scenes, the external events and
\* the external layouts of the document.
C23_UnknownPlatformOmitted ==
  /\ \A n \in UnknownPlatformNames :
       /\ n \notin Range(platforms)
       /\ currentPlatform # n
  /\ pc = "platforms" => ENABLED UnserializePlatforms
  /\ (pc = "done" /\ UnknownPlatformNames # {}) =>
       /\ NamesOf(eventsFunctionsExtensions)
            = NamesOf(document.eventsFunctionsExtensions)
       /\ NamesOf(scenes) = document.layouts
       /\ NamesOf(externalEvents) = document.externalEvents
       /\ NamesOf(externalLayouts) = document.externalLayouts

\* C23 witness: a document naming an unknown platform before a known one
\* has been loaded to the end; only the known one is in the project.
C23_Witness ==
  /\ pc = "done"
  /\ document.platforms = <<"Unknown platform", "GDevelop JS platform">>
  /\ "Unknown platform" \in UnknownPlatformNames
  /\ platforms = <<"GDevelop JS platform">>
  /\ currentPlatform = "GDevelop JS platform"
  /\ NamesOf(scenes) = <<"Scene", "Menu">>
  /\ NamesOf(eventsFunctionsExtensions) = <<"B">>

(* ====================================================================== *)
(* Properties of the serialization (checked under SpecRoundTrip)          *)
(* ====================================================================== *)

\* The project has been serialized, the element unserialized into a new
\* project, and that project serialized.
RoundTripDone == Len(serialized) = 2

\* C22: the element filled by serializing the project that has unserialized
\* a serialized project is the element it has unserialized: every scalar
\* property written, the two scene resources attributes included, and the
\* order of the layouts, external events, extensions and external layouts.
C22_RoundTrip == RoundTripDone => serialized[2] = serialized[1]

(* ------ specification: documents loaded into the same project --------- *)

\* Extensions of a document whose first name comes again: B, A whose custom
\* object embeds a type of B, and B once more.
RepeatedExtensions ==
  << [name |-> "B", eventsBasedObjects |-> <<>>],
     [name |-> "A",
      eventsBasedObjects |->
        << [name |-> "Foo", objects |-> << <<"B", "::", "Bar">> >>,
            variants |-> "document"] >>],
     [name |-> "B", eventsBasedObjects |-> <<>>] >>

\* Documents that differ by their playable devices and by the entries of
\* the four collections.
ReloadDocuments ==
  [gdVersion : {NoVersion},
   name : {"Game"},
   useDeprecatedZeroAsDefaultZOrder : {Absent},
   currentPlatform : {""},
   playableDevices : { <<>>, <<"keyboard">>, <<"mobile", "gamepad">> },
   platforms : { <<"GDevelop JS platform">> },
   eventsFunctionsExtensions : { <<>>, LoadedExtensions, RepeatedExtensions },
   layouts : { <<"Scene", "Menu">>, <<"Menu">> },
   externalEvents : { <<>>, <<"Events">> },
   externalLayouts : { <<"Layout">> }]

NextReload ==
  \/ UnserializeFromCall(ReloadDocuments)
  \/ UnserializeFrom

SpecReload == InitPlatforms /\ [][NextReload]_vars

(* ====================================================================== *)
(* Properties of the platforms of a project (checked under SpecPlatforms) *)
(* ====================================================================== *)

\* The platforms and the current platform when the last call was made.
PlatformsBefore == lastCall.before[1]

CurrentPlatformBefore == lastCall.before[2]

\* Only AddPlatform, SetCurrentPlatform and RemovePlatform have been called
\* on the new project.
OnlyPlatformCalls == loads = 0

\* C31: after any sequence of AddPlatform, SetCurrentPlatform and
\* RemovePlatform on a new project, the current platform is NULL only when
\* the list of platforms is empty, and is otherwise one of its entries; a
\* RemovePlatform called with at most one platform listed returns false and
\* changes nothing, so the list is never emptied; a SetCurrentPlatform whose
\* name matches no listed platform changes nothing.
C31_CurrentPlatformIsListed ==
  OnlyPlatformCalls =>
    /\ currentPlatform = NULL => platforms = <<>>
    /\ platforms # <<>> => currentPlatform \in Range(platforms)
    /\ lastCall.op = "RemovePlatform" =>
         /\ Len(PlatformsBefore) <= 1 =>
              /\ lastCall.returned = FALSE
              /\ platforms = PlatformsBefore
              /\ currentPlatform = CurrentPlatformBefore
         /\ PlatformsBefore # <<>> => platforms # <<>>
    /\ (lastCall.op = "SetCurrentPlatform"
          /\ lastCall.name \notin Range(PlatformsBefore)) =>
         /\ platforms = PlatformsBefore
         /\ currentPlatform = CurrentPlatformBefore

\* C31 witness: three platforms were added, the last one was made current
\* and then removed: the first one is current; no document was loaded.
C31_Witness ==
  /\ OnlyPlatformCalls
  /\ lastCall.op = "RemovePlatform"
  /\ lastCall.name = "Other platform"
  /\ lastCall.returned = TRUE
  /\ PlatformsBefore =
       <<"GDevelop JS platform", "GDevelop C++ platform", "Other platform">>
  /\ CurrentPlatformBefore = "Other platform"
  /\ platforms = <<"GDevelop JS platform", "GDevelop C++ platform">>
  /\ currentPlatform = "GDevelop JS platform"

\* The other cases of C31: the only platform is not removed, and an unlisted
\* name given to SetCurrentPlatform leaves the current platform.
LastPlatformKept ==
  /\ OnlyPlatformCalls
  /\ lastCall.op = "RemovePlatform"
  /\ lastCall.name = "GDevelop JS platform"
  /\ PlatformsBefore = <<"GDevelop JS platform">>
  /\ platforms = <<"GDevelop JS platform">>
  /\ lastCall.returned = FALSE

UnlistedNameIgnored ==
  /\ OnlyPlatformCalls
  /\ lastCall.op = "SetCurrentPlatform"
  /\ lastCall.name = "Other platform"
  /\ platforms = <<"GDevelop JS platform", "GDevelop C++ platform">>
  /\ currentPlatform = "GDevelop C++ platform"

\* No call is running: the project is as the calls made so far left it.
BetweenCalls == pc \in {"idle", "done"}

\* C32 (as claimed): after any sequence of AddPlatform, RemovePlatform and
\* UnserializeFrom calls, the list of platforms holds no NULL entry and holds
\* no platform twice.
C32_NoNullNoDuplicatePlatform ==
  BetweenCalls =>
    /\ \A k \in 1..Len(platforms) : platforms[k] # NULL
    /\ \A k, j \in 1..Len(platforms) : platforms[k] = platforms[j] => k = j

\* The two halves of C32, each for itself.
NoNullPlatform ==
  BetweenCalls => \A k \in 1..Len(platforms) : platforms[k] # NULL

NoDuplicatePlatform ==
  BetweenCalls =>
    \A k, j \in 1..Len(platforms) :
      (platforms[k] # NULL /\ platforms[k] = platforms[j]) => k = j

\* UnserializeFrom has returned and nothing was called since.
Loaded == pc = "done" /\ lastCall.op = "UnserializeFrom"

\* The platforms listed by the document that the registry knows.
KnownListedPlatforms == Range(document.platforms) \cap platformManager

\* C33 (as claimed): after UnserializeFrom of a document that lists at
\* least one platform known to the registry, the current platform is not
\* NULL and is one of the platforms of the project, and when the document's
\* currentPlatform names a known platform that the document lists, that
\* platform is the current one, whatever the platforms and the current
\* platform of the project were before the load.
C33_CurrentPlatformAfterLoad ==
  (Loaded /\ KnownListedPlatforms # {}) =>
    /\ currentPlatform # NULL
    /\ currentPlatform \in Range(platforms)
    /\ document.currentPlatform \in KnownListedPlatforms =>
         currentPlatform = document.currentPlatform

\* What holds of the code whatever came before: the current platform is one
\* of the entries of the list (NULL when the entry is), and the platform
\* named by the document is the current one.
CurrentPlatformIsEntryAfterLoad ==
  (Loaded /\ KnownListedPlatforms # {}) =>
    /\ currentPlatform \in Range(platforms)
    /\ document.currentPlatform \in KnownListedPlatforms =>
         currentPlatform = document.currentPlatform

\* C33 holds where no earlier load has left a NULL entry in the list.
CurrentPlatformAfterLoadWithoutNullEntry ==
  (\A k \in 1..Len(platforms) : platforms[k] # NULL) =>
    C33_CurrentPlatformAfterLoad

(* ====================================================================== *)
(* Properties of repeated loads (checked under SpecReload)                *)
(* ====================================================================== *)

\* The playable-device flags the project had when UnserializeFrom was
\* called.
DevicesBefore == lastCall.before[7]

\* The document lists the device.
ListsDevice(device) == device \in Range(document.playableDevices)

\* C34 (as claimed): after a load, isPlayableWithKeyboard,
\* isPlayableWithGamepad and isPlayableWithMobile are true exactly for the
\* devices that the document's playableDevices lists, whatever the flags
\* were before the load.
C34_PlayableDevicesFromDocument ==
  Loaded =>
    /\ isPlayableWithKeyboard = ListsDevice("keyboard")
    /\ isPlayableWithGamepad = ListsDevice("gamepad")
    /\ isPlayableWithMobile = ListsDevice("mobile")

\* What the code does: a flag is true after the load exactly when the
\* document lists the device or the flag was true before.
PlayableDevicesAccumulate ==
  Loaded =>
    /\ isPlayableWithKeyboard = (ListsDevice("keyboard") \/ DevicesBefore[1])
    /\ isPlayableWithGamepad = (ListsDevice("gamepad") \/ DevicesBefore[2])
    /\ isPlayableWithMobile = (ListsDevice("mobile") \/ DevicesBefore[3])

RECURSIVE FirstOccurrences(_)
\* The names of a sequence, each at the place of its first occurrence.
FirstOccurrences(names) ==
  IF names = <<>>
    THEN <<>>
    ELSE LET front == FirstOccurrences(SubSeq(names, 1, Len(names) - 1))
         IN  IF names[Len(names)] \in Range(front)
               THEN front
               ELSE Append(front, names[Len(names)])

\* C35: after UnserializeFrom the scenes, the external events, the external
\* layouts and the extensions are the entries of the document in the order
\* of the document, and none of the entities that these collections held
\* before the load is left in them; the extensions are one entity for each
\* distinct name of the fragments, at the place of the first fragment of that
\* name, whatever the order in which phase 2 implemented them.
C35_CollectionsAreTheDocuments ==
  Loaded =>
    /\ NamesOf(scenes) = document.layouts
    /\ NamesOf(externalEvents) = document.externalEvents
    /\ NamesOf(externalLayouts) = document.externalLayouts
    /\ NamesOf(eventsFunctionsExtensions) =
         FirstOccurrences(ElementNames(document.eventsFunctionsExtensions))
    /\ EntityIds(scenes) \cap EntityIds(lastCall.before[3]) = {}
    /\ EntityIds(externalEvents) \cap EntityIds(lastCall.before[4]) = {}
    /\ EntityIds(externalLayouts) \cap EntityIds(lastCall.before[5]) = {}
    /\ EntityIds(eventsFunctionsExtensions)
         \cap EntityIds(lastCall.before[6]) = {}

\* C35 witness: a project that held the scenes Scene and Menu, the external
\* events Events and the extensions B and A has loaded a document with the
\* scene Menu, no external events and the extensions A and B; phase 2 has
\* implemented B before A, and the collection holds A before B.
C35_Witness ==
  /\ Loaded
  /\ loads = 2
  /\ NamesOf(lastCall.before[3]) = <<"Scene", "Menu">>
  /\ NamesOf(lastCall.before[4]) = <<"Events">>
  /\ NamesOf(lastCall.before[6]) = <<"B", "A">>
  /\ document.eventsFunctionsExtensions = LoadedExtensions
  /\ NamesOf(scenes) = <<"Menu">>
  /\ externalEvents = <<>>
  /\ NamesOf(eventsFunctionsExtensions) = <<"A", "B">>
  /\ \E p, q \in 1..Len(log) :
       /\ p < q
       /\ log[p].kind = "implement" /\ log[p].name = "B"
       /\ log[q].kind = "implement" /\ log[q].name = "A"

\* The other case of C35: the fragments B, A, B have left the extensions B
\* and A, in that order.
RepeatedNameLoaded ==
  /\ Loaded
  /\ document.eventsFunctionsExtensions = RepeatedExtensions
  /\ NamesOf(eventsFunctionsExtensions) = <<"B", "A">>

=============================================================================
